---- MODULE Spec2Model ----
(***************************************************************************)
(* Layout validation and thumbnail rendering of the smart-thumbnail app.   *)
(*                                                                         *)
(* SpecValidate runs GPTLayoutGenerator._validate_and_fix_layout           *)
(* (gpt_layout.py) on a raw layout document, one step per block of the     *)
(* function.  SpecRender runs ThumbnailRenderer.render_thumbnail           *)
(* (image_renderer.py) on a layout document and a subject image, one step  *)
(* per painter call.  Layout documents are the values json.loads produces, *)
(* so they are modelled as tagged JSON values: a field can be absent, and  *)
(* a present field can hold a value of any JSON type.  An exception that   *)
(* leaves an operation ends it at pc = "v_raised" / "r_raised".            *)
(*                                                                         *)
(* SpecSession runs several renders in a row, SpecHex runs _hex_to_rgb on  *)
(* one string, SpecGenerate runs generate_layout (gpt_layout.py) on one    *)
(* response of the chat completion call, and SpecRemove runs               *)
(* BackgroundRemover.remove_background (remove_bg.py) on one image.        *)
(* SpecStore runs the Firestore methods of FirebaseManager                 *)
(* (firebase_config.py) on one collection, and SpecApp runs the button     *)
(* handlers of the Streamlit page (app.py) on one session.                 *)
(***************************************************************************)
EXTENDS Integers, Sequences, FiniteSets, TLC

(***************************************************************************)
(* JSON values as json.loads builds them (dict, list, int, str, None).     *)
(***************************************************************************)
Obj(f) == [t |-> "object", o |-> f]
Arr(s) == [t |-> "array", a |-> s]
Num(n) == [t |-> "number", n |-> n]
Str(s) == [t |-> "string", s |-> s]
Null == [t |-> "null"]

IsObj(v) == v.t = "object"
IsArr(v) == v.t = "array"
IsNum(v) == v.t = "number"
IsStr(v) == v.t = "string"

\* k in d, d.get(k, default), d[k] = x  -- for a dict d
Has(d, k) == k \in DOMAIN d.o
Get(d, k, default) == IF k \in DOMAIN d.o THEN d.o[k] ELSE default
Put(d, k, x) == Obj([kk \in (DOMAIN d.o) \cup {k} |-> IF kk = k THEN x ELSE d.o[kk]])
\* the dict with the keys ks of the dict literal f
Pick(f, ks) == Obj([k \in ks |-> f[k]])
EmptyDict == Obj([k \in {} |-> Null])

Min(a, b) == IF a <= b THEN a ELSE b
Max(a, b) == IF a >= b THEN a ELSE b

\* self.canvas_size, self.default_font_size
CanvasWidth == 1280
CanvasHeight == 720
DefaultFontSizePx == 48

\* a PIL image, as its mode and size; NoImage is user_image=None
Image(mode, w, h) == [mode |-> mode, width |-> w, height |-> h]
NoImage == Image("None", 0, 0)

VARIABLES
    raw,          \* the document as it was handed to the operation
    layout_data,  \* the document the operation works on (mutated in place)
    pc,           \* position of the running operation
    idx,          \* 1-based index of the element the running loop is at
    exc,          \* "none", or the type of the exception that left the operation
    warnings,     \* roles the validator warned about
    user_image,   \* the subject image handed to render_thumbnail, or NoImage
    fonts,        \* whether a font file of the candidate lists exists on this system
    canvas,       \* the canvas, as the sequence of paints made on the white canvas
    calls,        \* the painters render_thumbnail has called, in call order
    diagnostics,  \* the elements whose painter caught an exception and printed it
    rendered,     \* the renders finished earlier in this session, oldest first
    hex_color,    \* the argument of the running _hex_to_rgb call
    rgb,          \* what _hex_to_rgb returned
    title,        \* the title argument of generate_layout
    subtitle,     \* the subtitle argument of generate_layout
    response,     \* what the chat completion call of generate_layout yields
    response_text,\* the local response_text of generate_layout
    returned,     \* the document generate_layout returned
    validations,  \* how often generate_layout has called the validator
    images,       \* the image objects that exist, by identity (1 is the caller's image)
    service,      \* what the request of remove_background yields
    result,       \* the identity of the image remove_background returned, 0 before
    store,        \* a FirebaseManager and the Firestore collection 'thumbnails' behind it
    log,          \* the calls of FirebaseManager methods that have returned, oldest first
    session,      \* st.session_state of the Streamlit app
    invoked       \* the calls the latest run of app.py made to its collaborators, with the session's keys

renderVars == <<user_image, fonts, canvas, calls, diagnostics>>
\* the state of the operations other than the validator and one render
sessionVars == <<rendered>>
hexVars == <<hex_color, rgb>>
generateVars == <<title, subtitle, response, response_text, returned, validations>>
removeVars == <<images, service, result>>
storeVars == <<store, log>>
appVars == <<session, invoked>>
otherVars == <<sessionVars, hexVars, generateVars, removeVars, storeVars, appVars>>
vars == <<raw, layout_data, pc, idx, exc, warnings, renderVars, otherVars>>

\* an operation that has not been called
SessionIdle == rendered = <<>>
HexIdle == hex_color = Null /\ rgb = <<>>
GenerateIdle ==
    /\ title = Null
    /\ subtitle = Null
    /\ response = [kind |-> "none"]
    /\ response_text = ""
    /\ returned = Null
    /\ validations = 0
RemoveIdle ==
    /\ images = <<>>
    /\ service = [kind |-> "none"]
    /\ result = 0
StoreIdle == store = Null /\ log = <<>>
AppIdle == session = Null /\ invoked = <<>>
OthersIdle == SessionIdle /\ HexIdle /\ GenerateIdle /\ RemoveIdle /\ StoreIdle /\ AppIdle

(***************************************************************************)
(* _validate_and_fix_layout                                                *)
(***************************************************************************)
DefaultBackground ==
    Obj([type |-> Str("gradient"), gradientStart |-> Str("#FF6B6B"),
         gradientEnd |-> Str("#4ECDC4"), gradientDirection |-> Str("horizontal")])

\* lines 190-200: the two top-level defaults
WithTopLevelDefaultsOverwriting(doc) ==
    LET d1 == Put(doc, "background", DefaultBackground)
    IN  IF ~Has(d1, "elements") THEN Put(d1, "elements", Arr(<<>>)) ELSE d1
WithTopLevelDefaults(doc) ==
    LET d1 == IF ~Has(doc, "background") THEN Put(doc, "background", DefaultBackground) ELSE doc
    IN  IF ~Has(d1, "elements") THEN Put(d1, "elements", Arr(<<>>)) ELSE d1

\* any(elem.get("role") == role for elem in elems if elem.get("type") == "text"):
\* the generator is consumed in order and any() stops at the first hit;
\* .get on an element that is no dict raises AttributeError.
RECURSIVE AnyTextWithRole(_, _, _)
AnyTextWithRole(elems, role, k) ==
    IF k > Len(elems) THEN "false"
    ELSE IF ~IsObj(elems[k]) THEN "AttributeError"
    ELSE IF Get(elems[k], "type", Null) = Str("text")
            /\ Get(elems[k], "role", Null) = Str(role) THEN "true"
    ELSE AnyTextWithRole(elems, role, k + 1)

\* max(0, min(v, hi)) of line 215 / 217
ClampCoordNoUpper(v, hi) == Num(Max(0, v.n))
ClampCoord(v, hi) == Num(Max(0, Min(v.n, hi)))

\* lines 214-217
WithClampedCoords(e) ==
    LET e1 == IF Has(e, "x") THEN Put(e, "x", ClampCoord(e.o["x"], CanvasWidth)) ELSE e
    IN  IF Has(e1, "y") THEN Put(e1, "y", ClampCoord(e1.o["y"], CanvasHeight)) ELSE e1

\* lines 214-217 raise TypeError when min() meets a value that does not
\* order against an int
CoordsRaise(e) ==
    \/ Has(e, "x") /\ ~IsNum(e.o["x"])
    \/ Has(e, "y") /\ ~IsNum(e.o["y"])

IsTitle(e) == Get(e, "role", Null) = Str("title")

DefaultFontSize(e) == IF IsTitle(e) THEN Num(72) ELSE Num(36)

DefaultStrokeFlat(e) == Obj([color |-> Str("#000000"), width |-> Num(3)])
DefaultStroke(e) ==
    Obj([color |-> Str("#000000"), width |-> IF IsTitle(e) THEN Num(4) ELSE Num(3)])

\* lines 220-235
WithTextDefaults(e) ==
    IF Get(e, "type", Null) = Str("text")
    THEN LET e1 == IF ~Has(e, "fontSize") THEN Put(e, "fontSize", DefaultFontSize(e)) ELSE e
             e2 == IF ~Has(e1, "color") THEN Put(e1, "color", Str("#FFFFFF")) ELSE e1
             e3 == IF ~Has(e2, "fontWeight") THEN Put(e2, "fontWeight", Str("bold")) ELSE e2
             e4 == IF ~Has(e3, "alignment") THEN Put(e3, "alignment", Str("left")) ELSE e3
         IN  IF ~Has(e4, "stroke") THEN Put(e4, "stroke", DefaultStroke(e4)) ELSE e4
    ELSE e

\* lines 238-244
WithImageDefaults(e) ==
    IF Get(e, "type", Null) = Str("image")
    THEN LET e1 == IF ~Has(e, "width") THEN Put(e, "width", Num(350)) ELSE e
             e2 == IF ~Has(e1, "height") THEN Put(e1, "height", Num(350)) ELSE e1
         IN  IF ~Has(e2, "rotation") THEN Put(e2, "rotation", Num(0)) ELSE e2
    ELSE e

\* the body of the loop of line 212 for one element that is a dict with
\* orderable coordinates
FixElement(e) == WithImageDefaults(WithTextDefaults(WithClampedCoords(e)))

\* the exception the loop body raises on element e, or "none":
\* "x" in e raises TypeError for an int or None, and lines 215/217 for a
\* coordinate that is no number; a str holding neither letter passes both
\* membership tests and fails at e.get with AttributeError
ElementRaises(e) ==
    IF ~IsObj(e) THEN (IF IsStr(e) THEN "AttributeError" ELSE "TypeError")
    ELSE IF CoordsRaise(e) THEN "TypeError"
    ELSE "none"

Elements(doc) == doc.o["elements"].a

ValidateDefaults ==
    /\ pc = "v_defaults"
    /\ layout_data' = WithTopLevelDefaults(layout_data)
    /\ pc' = "v_roles"
    /\ UNCHANGED <<raw, idx, exc, warnings, renderVars, otherVars>>

\* lines 203-210: iterating a value that is no list raises TypeError
ValidateRoles ==
    /\ pc = "v_roles"
    /\ LET es == layout_data.o["elements"]
           has_title == IF IsArr(es) THEN AnyTextWithRole(es.a, "title", 1) ELSE "TypeError"
           has_subtitle == IF IsArr(es) THEN AnyTextWithRole(es.a, "subtitle", 1) ELSE "TypeError"
       IN  IF has_title \notin {"true", "false"}
           THEN /\ pc' = "v_raised"
                /\ exc' = has_title
                /\ UNCHANGED warnings
           ELSE IF has_subtitle \notin {"true", "false"}
           THEN /\ pc' = "v_raised"
                /\ exc' = has_subtitle
                /\ UNCHANGED warnings
           ELSE /\ pc' = "v_loop"
                /\ warnings' = (IF has_title = "false" THEN {"title"} ELSE {})
                                  \cup (IF has_subtitle = "false" THEN {"subtitle"} ELSE {})
                /\ UNCHANGED exc
    /\ idx' = 1
    /\ UNCHANGED <<raw, layout_data, renderVars, otherVars>>

\* one pass of the loop of lines 212-244
ValidateElement ==
    /\ pc = "v_loop"
    /\ idx <= Len(Elements(layout_data))
    /\ LET e == Elements(layout_data)[idx]
           r == ElementRaises(e)
       IN  IF r # "none"
           THEN /\ pc' = "v_raised"
                /\ exc' = r
                /\ UNCHANGED <<layout_data, idx>>
           ELSE /\ layout_data' = Put(layout_data, "elements",
                                      Arr([Elements(layout_data) EXCEPT ![idx] = FixElement(e)]))
                /\ idx' = idx + 1
                /\ UNCHANGED <<pc, exc>>
    /\ UNCHANGED <<raw, warnings, renderVars, otherVars>>

\* line 246
ValidateReturn ==
    /\ pc = "v_loop"
    /\ idx > Len(Elements(layout_data))
    /\ pc' = "v_done"
    /\ UNCHANGED <<raw, layout_data, idx, exc, warnings, renderVars, otherVars>>

(***************************************************************************)
(* Raw documents handed to the validator.  The set is a union of slices,   *)
(* each varying one aspect of the input: which top-level fields exist,     *)
(* which style fields a text element carries, the coordinates of an        *)
(* element of any type, the fields of an image element, and elements that  *)
(* are no dicts.  The element under variation sits among at most           *)
(* MaxContext complete elements.                                           *)
(***************************************************************************)
MaxContext == 2

TextStyleFields == {"fontSize", "color", "fontWeight", "alignment", "stroke"}

TextTemplate(role) ==
    [type |-> Str("text"), role |-> Str(role), content |-> Str("Hi"),
     x |-> Num(50), y |-> Num(100), fontSize |-> Num(50), color |-> Str("#FF0000"),
     fontWeight |-> Str("normal"), alignment |-> Str("center"),
     stroke |-> Obj([color |-> Str("#FFFFFF"), width |-> Num(2)])]

ImageTemplate(rot) ==
    [type |-> Str("image"), x |-> Num(700), y |-> Num(150),
     width |-> Num(500), height |-> Num(200), rotation |-> Num(rot)]

RawStyleElements ==
    {Pick(TextTemplate(r), {"type", "content", "x", "y"} \cup rk \cup ks) :
        r \in {"title", "subtitle"}, rk \in {{}, {"role"}}, ks \in SUBSET TextStyleFields}

RawXs == {Num(-5), Num(0), Num(640), Num(1280), Num(1300), Str("50")}
RawYs == {Num(-1), Num(720), Num(900), Null}

RawCoordElements ==
    {Pick([type |-> Str(ty), x |-> xv, y |-> yv], kt \cup kx \cup ky) :
        ty \in {"text", "image", "shape"}, xv \in RawXs, yv \in RawYs,
        kt \in {{}, {"type"}}, kx \in {{}, {"x"}}, ky \in {{}, {"y"}}}

RawImageElements ==
    {Pick(ImageTemplate(rot), {"type", "x", "y"} \cup ks) :
        rot \in {0, 90}, ks \in SUBSET {"width", "height", "rotation"}}

NonDictElements == {Num(5), Null, Str("abc")}

RawElements ==
    RawStyleElements \cup RawCoordElements \cup RawImageElements \cup NonDictElements

ContextElements ==
    {Pick(TextTemplate("title"), DOMAIN TextTemplate("title")),
     Pick(TextTemplate("subtitle"), DOMAIN TextTemplate("subtitle")),
     Pick(ImageTemplate(0), DOMAIN ImageTemplate(0))}

Contexts == UNION {[1..k -> ContextElements] : k \in 0..MaxContext}

ElementDocs ==
    {Pick([elements |-> Arr(pp[1] \o <<e>> \o pp[2])], {"elements"}) :
        pp \in {qq \in Contexts \X Contexts : Len(qq[1]) + Len(qq[2]) <= MaxContext},
        e \in RawElements}

TopLevelDocs ==
    {Pick([background |-> b, elements |-> es], kb \cup ke) :
        b \in {Null, Pick([type |-> Str("solid"), color |-> Str("#112233")], {"type", "color"})},
        es \in {Null, Num(3), Arr(<<>>)},
        kb \in {{}, {"background"}}, ke \in {{}, {"elements"}}}

RawDocs == ElementDocs \cup TopLevelDocs

InitValidate ==
    /\ raw \in RawDocs
    /\ layout_data = raw
    /\ pc = "v_defaults"
    /\ idx = 0
    /\ exc = "none"
    /\ warnings = {}
    /\ user_image = NoImage
    /\ fonts = TRUE
    /\ canvas = <<>>
    /\ calls = <<>>
    /\ diagnostics = {}
    /\ OthersIdle

NextValidate ==
    \/ ValidateDefaults
    \/ ValidateRoles
    \/ ValidateElement
    \/ ValidateReturn

SpecValidate == InitValidate /\ [][NextValidate]_vars

(***************************************************************************)
(* ThumbnailRenderer (image_renderer.py).  The canvas is the sequence of   *)
(* paints made on it: a paint is the rectangle a draw call covers, its     *)
(* fill, and the element it was made for (0 for the background).           *)
(***************************************************************************)
Paint(kind, elem, x, y, w, h, fill) ==
    [kind |-> kind, elem |-> elem, x |-> x, y |-> y, w |-> w, h |-> h, fill |-> fill]

\* what a painter did: the exception that left it ("none" if it returned),
\* the exception its own handler caught ("none" if none), its paints
Outcome(escaped, caught, paints) == [escaped |-> escaped, caught |-> caught, paints |-> paints]

\* PIL's ImageColor.getrgb accepts the colour string (else ValueError)
KnownColors ==
    {"#FFFFFF", "#000000", "#FF0000", "#FFFF00", "#112233", "#FF6B6B", "#4ECDC4"}
ColorOK(c) == IsStr(c) /\ c.s \in KnownColors

\* text contents of the modelled inputs: glyph count, whether sys.stdout
\* can encode the string (a lone surrogate from a JSON \uD83D escape cannot
\* be encoded as UTF-8), whether the built-in bitmap font can draw it
ShortText == "Hi"
LongText == "A title of twenty ch"
CjkText == "nihongo (three CJK glyphs)"
SurrogateText == "lone surrogate \\uD83D"
Glyphs(s) ==
    CASE s = "" -> 0
      [] s = ShortText -> 2
      [] s = LongText -> 20
      [] s = CjkText -> 3
      [] OTHER -> 1
Encodable(s) == s # SurrogateText
Latin1(s) == s \notin {CjkText, SurrogateText}

\* print(f"...{v}...") raises UnicodeEncodeError for a str stdout cannot encode
PrintRaises(v) == IsStr(v) /\ ~Encodable(v.s)

\* _get_font never raises: a candidate file that exists and loads at the
\* requested size, else ImageFont.load_default()
get_font(size, weight) ==
    IF fonts /\ IsNum(size) /\ size.n > 0
    THEN [kind |-> "truetype", size |-> size.n]
    ELSE [kind |-> "default", size |-> 11]

\* draw.textbbox((0, 0), content, font=font): width and height of the box
TextWidth(content, font) ==
    Glyphs(content.s) * (IF font.kind = "truetype" THEN font.size ELSE 6)
TextHeight(content, font) == IF Glyphs(content.s) = 0 THEN 0 ELSE font.size

\* textbbox raises TypeError for a content that is no str, and the bitmap
\* font raises UnicodeEncodeError for text outside Latin-1
TextBBoxRaises(content, font) ==
    IF ~IsStr(content) THEN "TypeError"
    ELSE IF font.kind = "default" /\ ~Latin1(content.s) THEN "UnicodeEncodeError"
    ELSE "none"

\* lines 150-153
AlignedXRoundedUp(x, alignment, text_width) ==
    IF alignment = Str("center") THEN x - ((text_width + 1) \div 2)
    ELSE IF alignment = Str("right") THEN x - text_width
    ELSE x
AlignedX(x, alignment, text_width) ==
    IF alignment = Str("center") THEN x - (text_width \div 2)
    ELSE IF alignment = Str("right") THEN x - text_width
    ELSE x

\* lines 156-157, 210-211: max(0, min(v, limit - extent))
BoundsCheckNoLower(v, limit, extent) == Min(v, limit - extent)
BoundsCheck(v, limit, extent) == Max(0, Min(v, limit - extent))

\* the (dx, dy) of lines 165-167, in loop order
StrokeOffsetsSquare(w) ==
    LET side == 2 * w + 1
    IN  [n \in 1..(side * side) |-> <<((n - 1) \div side) - w, ((n - 1) % side) - w>>]
StrokeOffsets(w) ==
    LET side == 2 * w + 1
        grid == [n \in 1..(side * side) |-> <<((n - 1) \div side) - w, ((n - 1) % side) - w>>]
        InDisc(d) == d[1] * d[1] + d[2] * d[2] <= w * w
    IN  SelectSeq(grid, InDisc)

\* _draw_text_with_effects for element number i
draw_text_with_effects(text_data, i) ==
    LET content == Get(text_data, "content", Str(""))
        xv == Get(text_data, "x", Num(0))
        yv == Get(text_data, "y", Num(0))
        font_size == Get(text_data, "fontSize", Num(DefaultFontSizePx))
        color == Get(text_data, "color", Str("#000000"))
        font_weight == Get(text_data, "fontWeight", Str("normal"))
        alignment == Get(text_data, "alignment", Str("left"))
        stroke_data == Get(text_data, "stroke", EmptyDict)
        font == get_font(font_size, font_weight)
        \* the handler of lines 175-177 prints the content again
        Caught(e, paints) ==
            IF PrintRaises(content) THEN Outcome("UnicodeEncodeError", e, paints)
            ELSE Outcome("none", e, paints)
    IN  IF PrintRaises(content) THEN Caught("UnicodeEncodeError", <<>>)
        ELSE IF TextBBoxRaises(content, font) # "none"
        THEN Caught(TextBBoxRaises(content, font), <<>>)
        ELSE IF ~IsNum(xv) \/ ~IsNum(yv) THEN Caught("TypeError", <<>>)
        ELSE IF ~IsObj(stroke_data) THEN Caught("AttributeError", <<>>)
        ELSE
        LET text_width == TextWidth(content, font)
            text_height == TextHeight(content, font)
            x == BoundsCheck(AlignedX(xv.n, alignment, text_width), CanvasWidth, text_width)
            y == BoundsCheck(yv.n, CanvasHeight, text_height)
            stroke_color == Get(stroke_data, "color", Str("#000000"))
            stroke_width == Get(stroke_data, "width", Num(0))
        IN  IF ~IsNum(stroke_width) THEN Caught("TypeError", <<>>)
            ELSE IF stroke_width.n > 0 /\ ~ColorOK(stroke_color) THEN Caught("ValueError", <<>>)
            ELSE
            LET offs == IF stroke_width.n > 0 THEN StrokeOffsets(stroke_width.n) ELSE <<>>
                strokes == [n \in 1..Len(offs) |->
                              Paint("stroke", i, x + offs[n][1], y + offs[n][2],
                                    text_width, text_height, stroke_color)]
            IN  IF ~ColorOK(color) THEN Caught("ValueError", strokes)
                ELSE Outcome("none", "none",
                             Append(strokes, Paint("text", i, x, y, text_width, text_height, color)))

\* lines 190-200: the size the subject is resized to.  The ratios are
\* Python floats and int() truncates.  For the modelled subjects and boxes
\* the comparison of line 193 is the comparison of the exact ratios, and
\* the truncated float is the integer quotient: the subjects have a ratio
\* width/height that a float holds exactly (2, 1/2, 1, 3/2, 1/8, 3/4), but
\* for the 201x400 subject.  Its ratio 0.5025 is no float, and
\* int(400 * (201 / 400)) is int(200.99999999999997) = 200.
FloatBelowQuotient == {<<400, 201, 400>>}
FloatQuotient(n, p, q) == (n * p) \div q - (IF <<n, p, q>> \in FloatBelowQuotient THEN 1 ELSE 0)
ResizedWidthStretched(width, height, img) == width
ResizedWidth(width, height, img) ==
    IF img.width * height > width * img.height
    THEN width
    ELSE FloatQuotient(height, img.width, img.height)
ResizedHeight(width, height, img) ==
    IF img.width * height > width * img.height
    THEN (width * img.height) \div img.width
    ELSE height

\* _draw_image for element number i: every exception is caught at line 221
draw_image(img_data, img, i) ==
    LET xv == Get(img_data, "x", Num(0))
        yv == Get(img_data, "y", Num(0))
        wv == Get(img_data, "width", Num(300))
        hv == Get(img_data, "height", Num(300))
    IN  IF ~IsNum(wv) \/ ~IsNum(hv) THEN Outcome("none", "TypeError", <<>>)
        ELSE IF hv.n = 0 THEN Outcome("none", "ZeroDivisionError", <<>>)
        ELSE
        LET new_width == ResizedWidth(wv.n, hv.n, img)
            new_height == ResizedHeight(wv.n, hv.n, img)
        IN  \* Image.resize refuses an empty size
            IF new_width <= 0 \/ new_height <= 0 THEN Outcome("none", "ValueError", <<>>)
            ELSE IF ~IsNum(xv) \/ ~IsNum(yv) THEN Outcome("none", "TypeError", <<>>)
            ELSE Outcome("none", "none",
                         <<Paint("image", i,
                                 BoundsCheck(xv.n, CanvasWidth, new_width),
                                 BoundsCheck(yv.n, CanvasHeight, new_height),
                                 new_width, new_height, Str(img.mode))>>)

(***************************************************************************)
(* _hex_to_rgb, on strings as Python holds them.                           *)
(***************************************************************************)
\* s[i:j] for 0 <= i <= j
Slice(s, i, j) ==
    IF i >= Min(j, Len(s)) THEN "" ELSE SubSeq(s, i + 1, Min(j, Len(s)))
CharAt(s, i) == SubSeq(s, i + 1, i + 1)

\* hex_color.lstrip('#') removes every leading '#'
RECURSIVE LStripSharp(_)
LStripSharp(s) ==
    IF Len(s) > 0 /\ CharAt(s, 0) = "#" THEN LStripSharp(Slice(s, 1, Len(s))) ELSE s

\* s.strip(); int() ignores the same white space at both ends of its argument
IsSpace(c) == c \in {" ", "\n", "\t"}
RECURSIVE StripSpace(_)
StripSpace(s) ==
    IF Len(s) > 0 /\ IsSpace(CharAt(s, 0)) THEN StripSpace(Slice(s, 1, Len(s)))
    ELSE IF Len(s) > 0 /\ IsSpace(CharAt(s, Len(s) - 1)) THEN StripSpace(Slice(s, 0, Len(s) - 1))
    ELSE s

\* the digits int(x, 16) accepts, each with its value plus one as index
LowerHexDigits == <<"0", "1", "2", "3", "4", "5", "6", "7", "8", "9", "a", "b", "c", "d", "e", "f">>
UpperHexDigits == <<"0", "1", "2", "3", "4", "5", "6", "7", "8", "9", "A", "B", "C", "D", "E", "F">>
HexDigitChars == {LowerHexDigits[i] : i \in 1..16} \cup {UpperHexDigits[i] : i \in 1..16}
IsHexDigit(c) == c \in HexDigitChars
HexDigitValue(c) == (CHOOSE i \in 1..16 : c = LowerHexDigits[i] \/ c = UpperHexDigits[i]) - 1

RECURSIVE HexDigitsValue(_)
HexDigitsValue(s) ==
    IF Len(s) = 0 THEN 0
    ELSE 16 * HexDigitsValue(Slice(s, 0, Len(s) - 1)) + HexDigitValue(CharAt(s, Len(s) - 1))

\* int(s, 16) for a slice s of at most two characters: white space is
\* stripped, a sign is accepted, then come digits; "0x" is a prefix with
\* no digit after it and '_' is accepted only between two digits, so both
\* raise ValueError here, as does the empty slice of a short string
IntBase16(s) ==
    LET t == StripSpace(s)
        signed == Len(t) > 0 /\ CharAt(t, 0) \in {"+", "-"}
        digits == IF signed THEN Slice(t, 1, Len(t)) ELSE t
    IN  IF Len(digits) = 0 \/ \E i \in 0..(Len(digits) - 1) : ~IsHexDigit(CharAt(digits, i))
        THEN [raised |-> TRUE, value |-> 0]
        ELSE [raised |-> FALSE,
              value |-> IF signed /\ CharAt(t, 0) = "-" THEN 0 - HexDigitsValue(digits)
                        ELSE HexDigitsValue(digits)]

\* lines 275-279: a value without lstrip raises AttributeError, caught like
\* the ValueError of int()
hex_to_rgb(color) ==
    IF ~IsStr(color) THEN <<0, 0, 0>>
    ELSE LET h == LStripSharp(color.s)
             ch == [n \in 1..3 |-> IntBase16(Slice(h, 2 * n - 2, 2 * n))]
         IN  IF \E n \in 1..3 : ch[n].raised THEN <<0, 0, 0>>
             ELSE <<ch[1].value, ch[2].value, ch[3].value>>

\* int(p / q) for integers p and q > 0: int() truncates towards zero
TruncDiv(p, q) == IF p >= 0 THEN p \div q ELSE 0 - ((0 - p) \div q)

\* lines 96-99 (104-107): int(a + (b - a) * ratio) for ratio = n / d.  The
\* ratio, the product and the sum are Python floats.  For the channel
\* pairs of the modelled gradients (0, 78, 107, 196, 205, 255 against each
\* other) the float truncates to the same integer as the exact quotient at
\* every column of 1280 and every row of 720.  (Not so for every pair:
\* int(0 + 90 * (896 / 1280)) is 62 where the exact value is 63.)
LerpRounded(a, b, n, d) == TruncDiv(2 * (a * d + (b - a) * n) + d, 2 * d)
Lerp(a, b, n, d) == TruncDiv(a * d + (b - a) * n, d)

\* a * b as <<thousands, units>>, for products beyond 2^31 (Python's
\* integers have no width), and the comparison of two such products
Wide(a, b) == <<a * (b \div 1000) + (a * (b % 1000)) \div 1000, (a * (b % 1000)) % 1000>>
WideLeq(u, v) == u[1] < v[1] \/ (u[1] = v[1] /\ u[2] <= v[2])

\* line 114: x**2 + y**2, the square of the distance from pixel (0, 0)
DistanceSquaredManhattan(x, y) == (x + y) * (x + y)
DistanceSquared(x, y) == x * x + y * y
\* line 111: the square of diagonal_length
DiagonalSquared == CanvasWidth * CanvasWidth + CanvasHeight * CanvasHeight

\* floor and ceiling of d * sqrt(s / DiagonalSquared), for 0 <= s < DiagonalSquared
ScaledRootFloor(d, s) ==
    CHOOSE k \in 0..d : /\ WideLeq(Wide(k * k, DiagonalSquared), Wide(d * d, s))
                        /\ ~WideLeq(Wide((k + 1) * (k + 1), DiagonalSquared), Wide(d * d, s))
ScaledRootCeil(d, s) ==
    CHOOSE k \in 0..d : /\ WideLeq(Wide(d * d, s), Wide(k * k, DiagonalSquared))
                        /\ k > 0 => ~WideLeq(Wide(d * d, s), Wide((k - 1) * (k - 1), DiagonalSquared))

\* the <<a, b, s>> of the modelled gradients at which a + (b - a) * ratio
\* is an integer n in exact arithmetic and just below n as the Python
\* float of line 118, so that int() gives n - 1: 0 + 255 * ratio at the
\* distances of pixels (256, 144), (512, 288) and (1024, 576), where the
\* ratio is 1/5, 2/5 and 4/5
FloatBelowInteger == {<<0, 255, 86272>>, <<0, 255, 345088>>, <<0, 255, 1380352>>}

\* lines 114-120: int(a + (b - a) * ratio) for ratio = min(1.0,
\* math.sqrt(s) / diagonal_length).  The value is the truncation of the
\* exact interpolation for every channel pair of the modelled gradients
\* (0, 78, 107, 196, 205, 255) at every pixel of the canvas, but for the
\* entries of FloatBelowInteger.
DiagonalLerp(a, b, s) ==
    IF s >= DiagonalSquared THEN b
    ELSE IF b >= a
    THEN a + ScaledRootFloor(b - a, s) - (IF <<a, b, s>> \in FloatBelowInteger THEN 1 ELSE 0)
    ELSE a - ScaledRootCeil(a - b, s)

\* the colour the loops of lines 94-121 give pixel (x, y) of a gradient
\* fill: line 100 draws column x from top to bottom in the colour of
\* ratio x / 1280, line 108 draws row y from left to right in the colour
\* of ratio y / 720, line 121 draws the pixel in the colour of its distance
GradientPixel(fill, x, y) ==
    IF fill.direction = "diagonal"
    THEN [c \in 1..3 |-> DiagonalLerp(fill.start_rgb[c], fill.end_rgb[c], DistanceSquared(x, y))]
    ELSE
    LET n == IF fill.direction = "horizontal" THEN x ELSE y
        d == IF fill.direction = "horizontal" THEN CanvasWidth ELSE CanvasHeight
    IN  [c \in 1..3 |-> Lerp(fill.start_rgb[c], fill.end_rgb[c], n, d)]

\* _draw_gradient: _hex_to_rgb swallows every parse failure and nothing
\* else in the try block raises, so the handler of lines 123-125 is never
\* entered; the block paints for a known direction and paints nothing for
\* any other
draw_gradient(start_color, end_color, direction) ==
    IF direction \in {Str("horizontal"), Str("vertical"), Str("diagonal")}
    THEN Outcome("none", "none",
                 <<Paint("background", 0, 0, 0, CanvasWidth, CanvasHeight,
                         [direction |-> direction.s,
                          start_rgb |-> hex_to_rgb(start_color),
                          end_rgb |-> hex_to_rgb(end_color)])>>)
    ELSE Outcome("none", "none", <<>>)

\* _draw_background: bg_data.get raises AttributeError when bg_data is no
\* dict, draw.rectangle raises ValueError for an unknown colour string
draw_background(bg_data) ==
    IF ~IsObj(bg_data) THEN Outcome("AttributeError", "none", <<>>)
    ELSE LET bg_type == Get(bg_data, "type", Str("solid"))
         IN  IF bg_type = Str("solid")
             THEN LET color == Get(bg_data, "color", Str("#FFFFFF"))
                  IN  IF ColorOK(color)
                      THEN Outcome("none", "none",
                                   <<Paint("background", 0, 0, 0, CanvasWidth, CanvasHeight, color)>>)
                      ELSE Outcome("ValueError", "none", <<>>)
             ELSE IF bg_type = Str("gradient")
             THEN draw_gradient(Get(bg_data, "gradientStart", Str("#FFFFFF")),
                                Get(bg_data, "gradientEnd", Str("#000000")),
                                Get(bg_data, "gradientDirection", Str("horizontal")))
             ELSE Outcome("none", "none", <<>>)

\* elements = layout_data.get('elements', [])
RenderElements == Get(layout_data, "elements", Arr(<<>>))

\* lines 53-63 painting the background on the canvas of the previous call
RenderBackgroundOnUsedCanvas ==
    /\ pc = "r_start"
    /\ LET out == draw_background(Get(layout_data, "background", EmptyDict))
       IN  /\ canvas' = canvas \o out.paints
           /\ calls' = <<[painter |-> "background", elem |-> 0]>>
           /\ IF out.escaped # "none"
              THEN pc' = "r_raised" /\ exc' = out.escaped
              ELSE IF ~IsArr(RenderElements)
              THEN pc' = "r_raised" /\ exc' = "TypeError"
              ELSE pc' = "r_images" /\ UNCHANGED exc
    /\ idx' = 1
    /\ UNCHANGED <<raw, layout_data, warnings, user_image, fonts, diagnostics, otherVars>>
\* lines 53-63: new canvas, background, and the start of the first loop,
\* which raises TypeError when elements is no list
RenderBackground ==
    /\ pc = "r_start"
    /\ LET out == draw_background(Get(layout_data, "background", EmptyDict))
       IN  /\ canvas' = out.paints
           /\ calls' = <<[painter |-> "background", elem |-> 0]>>
           /\ IF out.escaped # "none"
              THEN pc' = "r_raised" /\ exc' = out.escaped
              ELSE IF ~IsArr(RenderElements)
              THEN pc' = "r_raised" /\ exc' = "TypeError"
              ELSE pc' = "r_images" /\ UNCHANGED exc
    /\ idx' = 1
    /\ UNCHANGED <<raw, layout_data, warnings, user_image, fonts, diagnostics, otherVars>>

\* how one pass of a loop of render_thumbnail ends: an exception leaves
\* render_thumbnail, the element is passed over, or a painter was called
StepRaises(e) ==
    /\ pc' = "r_raised"
    /\ exc' = e
    /\ UNCHANGED <<idx, canvas, calls, diagnostics>>

StepPassesOver ==
    /\ idx' = idx + 1
    /\ UNCHANGED <<pc, exc, canvas, calls, diagnostics>>

StepCalls(painter, out) ==
    /\ canvas' = canvas \o out.paints
    /\ calls' = Append(calls, [painter |-> painter, elem |-> idx])
    /\ diagnostics' = IF out.caught # "none" THEN diagnostics \cup {idx} ELSE diagnostics
    /\ IF out.escaped # "none"
       THEN pc' = "r_raised" /\ exc' = out.escaped /\ UNCHANGED idx
       ELSE idx' = idx + 1 /\ UNCHANGED <<pc, exc>>

\* lines 64-65; element.get raises AttributeError on an element that is no dict
ImagePassInDocumentOrder(element) ==
    IF ~IsObj(element) THEN StepRaises("AttributeError")
    ELSE IF Get(element, "type", Null) = Str("image") /\ user_image # NoImage
    THEN StepCalls("image", draw_image(element, user_image, idx))
    ELSE IF Get(element, "type", Null) = Str("text")
    THEN StepCalls("text", draw_text_with_effects(element, idx))
    ELSE StepPassesOver
ImagePass(element) ==
    IF ~IsObj(element) THEN StepRaises("AttributeError")
    ELSE IF Get(element, "type", Null) = Str("image") /\ user_image # NoImage
    THEN StepCalls("image", draw_image(element, user_image, idx))
    ELSE StepPassesOver

\* lines 69-70
TextPass(element) ==
    IF Get(element, "type", Null) = Str("text")
    THEN StepCalls("text", draw_text_with_effects(element, idx))
    ELSE StepPassesOver

\* one pass of the loop of lines 63-65
RenderImageElement ==
    /\ pc = "r_images"
    /\ idx <= Len(RenderElements.a)
    /\ ImagePass(RenderElements.a[idx])
    /\ UNCHANGED <<raw, layout_data, warnings, user_image, fonts, otherVars>>

\* the first loop is exhausted: line 68 starts the second
RenderImagesDone ==
    /\ pc = "r_images"
    /\ idx > Len(RenderElements.a)
    /\ pc' = "r_texts"
    /\ idx' = 1
    /\ UNCHANGED <<raw, layout_data, exc, warnings, renderVars, otherVars>>

\* one pass of the loop of lines 68-70
RenderTextElement ==
    /\ pc = "r_texts"
    /\ idx <= Len(RenderElements.a)
    /\ TextPass(RenderElements.a[idx])
    /\ UNCHANGED <<raw, layout_data, warnings, user_image, fonts, otherVars>>

\* line 72
RenderReturn ==
    /\ pc = "r_texts"
    /\ idx > Len(RenderElements.a)
    /\ pc' = "r_done"
    /\ UNCHANGED <<raw, layout_data, idx, exc, warnings, renderVars, otherVars>>

NextRender ==
    \/ RenderBackground
    \/ RenderImageElement
    \/ RenderImagesDone
    \/ RenderTextElement
    \/ RenderReturn

(***************************************************************************)
(* Inputs of render_thumbnail: a union of slices, each varying one aspect  *)
(* (geometry of a text element, its effects and content, the box of an     *)
(* image element, elements that are no dicts, the background), the varied  *)
(* element sitting among at most MaxContext complete elements.             *)
(***************************************************************************)
Subjects == {Image("RGBA", 400, 200), Image("RGBA", 200, 400), Image("RGB", 300, 300)}

TextGeometryElements ==
    {Pick([type |-> Str("text"), content |-> Str(c), x |-> Num(xv), y |-> Num(yv),
           fontSize |-> Num(fs), alignment |-> Str(al), color |-> Str("#FFFFFF")],
          {"type", "content", "y", "color"} \cup kx \cup kf \cup ka) :
        c \in {"", ShortText, LongText}, xv \in {-5, 640, 1300}, yv \in {0, 360, 720},
        fs \in {36, 72, 800}, al \in {"left", "center", "right", "justify"},
        kx \in {{}, {"x"}}, kf \in {{}, {"fontSize"}}, ka \in {{}, {"alignment"}}}

\* anchors, alignments and odd measured widths for lines 150-156: three
\* glyphs at 35 px measure 105 px, at 427 px they measure 1281 px
TextAlignmentElements ==
    {Pick([type |-> Str("text"), content |-> Str(CjkText), x |-> Num(xv), y |-> Num(300),
           fontSize |-> Num(fs), alignment |-> al, color |-> Str("#FFFFFF")],
          {"type", "content", "x", "y", "fontSize", "color"} \cup ka) :
        xv \in {-5, 0, 52, 53, 640, 1200, 1280, 1300}, fs \in {35, 427},
        al \in {Str("left"), Str("center"), Str("right"), Str("Center"), Num(1), Null},
        ka \in {{}, {"alignment"}}}

Strokes ==
    {Pick([color |-> Str("#000000"), width |-> Num(0)], {"color", "width"}),
     Pick([color |-> Str("#000000"), width |-> Num(2)], {"color", "width"}),
     Pick([color |-> Str("#000000"), width |-> Num(2)], {"width"}),
     Pick([color |-> Str("#FF0000"), width |-> Num(1)], {"color", "width"}),
     Pick([color |-> Str("#000000"), width |-> Num(3)], {"color", "width"}),
     Pick([color |-> Str("notacolor"), width |-> Num(1)], {"color", "width"}),
     Pick([color |-> Str("#000000"), width |-> Str("3")], {"color", "width"}),
     Null}

TextEffectElements ==
    {Pick([type |-> Str("text"), content |-> c, x |-> xv, y |-> Num(100),
           fontSize |-> Num(36), color |-> Str(col), stroke |-> st],
          {"type", "content", "x", "y", "fontSize", "color"} \cup ks) :
        c \in {Str(ShortText), Str(CjkText), Str(SurrogateText), Num(5)},
        xv \in {Num(100), Str("left")}, col \in {"#FFFF00", "notacolor"},
        st \in Strokes, ks \in {{}, {"stroke"}}}

ImageBoxElements ==
    {Pick([type |-> Str("image"), x |-> Num(xv), y |-> Num(yv), width |-> wv, height |-> hv,
           rotation |-> Num(0)],
          {"type", "y", "rotation"} \cup kx \cup kw \cup kh) :
        xv \in {-5, 700, 1300}, yv \in {0, 600, 720},
        wv \in {Num(0), Num(300), Num(2000), Str("wide")}, hv \in {Num(0), Num(300), Num(2000)},
        kx \in {{}, {"x"}}, kw \in {{}, {"width"}}, kh \in {{}, {"height"}}}

\* subjects and boxes for the aspect fit of lines 190-200
FitSubjects ==
    {Image("RGBA", 400, 200), Image("RGBA", 200, 400), Image("RGB", 300, 300),
     Image("RGBA", 300, 200), Image("RGBA", 100, 800), Image("RGB", 3, 4),
     Image("RGB", 201, 400)}
FitSides == {1, 150, 200, 300, 301, 400, 720, 1280}
FitDocs ==
    {Pick([background |-> DefaultBackground,
           elements |-> Arr(<<Pick([type |-> Str("image"), x |-> Num(0), y |-> Num(0),
                                    width |-> Num(w), height |-> Num(h)],
                                   {"type", "x", "y", "width", "height"})>>)],
          {"background", "elements"}) : w \in FitSides, h \in FitSides}

\* an image element and a text element anchored outside the canvas on both
\* axes, for lines 149-157 and 205-211
OutsideAnchors == {<<-200, -7>>, <<1281, 721>>, <<3000, 2000>>, <<-200, 2000>>}
OutsideDocs ==
    {Pick([background |-> DefaultBackground,
           elements |-> Arr(<<Pick([type |-> Str("image"), x |-> Num(pi[1]), y |-> Num(pi[2]),
                                    width |-> Num(side), height |-> Num(side)],
                                   {"type", "x", "y", "width", "height"}),
                              Pick([type |-> Str("text"), content |-> Str(CjkText),
                                    x |-> Num(pt[1]), y |-> Num(pt[2]), fontSize |-> Num(fs),
                                    alignment |-> Str(al), color |-> Str("#FFFFFF")],
                                   {"type", "content", "x", "y", "fontSize", "alignment",
                                    "color"})>>)],
          {"background", "elements"}) :
        pi \in OutsideAnchors, side \in {300, 2000}, pt \in OutsideAnchors,
        fs \in {35, 427}, al \in {"left", "center", "right"}}

RenderContextElements ==
    {Pick(TextTemplate("title"), DOMAIN TextTemplate("title")),
     Pick(ImageTemplate(0), DOMAIN ImageTemplate(0))}

RenderContexts ==
    LET seqs == UNION {[1..k -> RenderContextElements] : k \in 0..MaxContext}
    IN  {qq \in seqs \X seqs : Len(qq[1]) + Len(qq[2]) <= MaxContext}

\* the documents whose element sequence holds one element of es in a context
DocsAround(es) ==
    {Pick([background |-> DefaultBackground, elements |-> Arr(pp[1] \o <<e>> \o pp[2])],
          {"background", "elements"}) : pp \in RenderContexts, e \in es}

Backgrounds ==
    {Null, Str("#FFFFFF"), EmptyDict,
     Pick([type |-> Str("solid"), color |-> Str("#112233")], {"type", "color"}),
     Pick([type |-> Str("solid"), color |-> Str("#112233")], {"color"}),
     Pick([type |-> Str("solid"), color |-> Str("notacolor")], {"type", "color"}),
     Pick([type |-> Str("image"), color |-> Str("#112233")], {"type", "color"})}
    \cup {Pick([type |-> Str("gradient"), gradientStart |-> Str(st), gradientEnd |-> Str("#4ECDC4"),
                gradientDirection |-> Str(dir)], {"type", "gradientEnd"} \cup ks \cup kd) :
            st \in {"#FF6B6B", "notacolor"}, dir \in {"horizontal", "vertical", "diagonal", "radial"},
            ks \in {{}, {"gradientStart"}}, kd \in {{}, {"gradientDirection"}}}
    \cup {Pick([type |-> Str("gradient"), gradientStart |-> st, gradientEnd |-> en,
                gradientDirection |-> Str(dir)],
               {"type", "gradientStart", "gradientEnd", "gradientDirection"}) :
            st \in {Str("#000000"), Str("#FFFFFF")},
            en \in {Str("#FFFFFF"), Str("#000000"), Str("notacolor"), Null},
            dir \in {"horizontal", "vertical", "diagonal"}}

BackgroundDocs ==
    {Pick([background |-> b, elements |-> es], kb \cup ke) :
        b \in Backgrounds,
        es \in {Null, Arr(<<>>),
                Arr(<<Pick(TextTemplate("title"), DOMAIN TextTemplate("title")),
                      Pick(ImageTemplate(0), DOMAIN ImageTemplate(0))>>)},
        kb \in {{}, {"background"}}, ke \in {{}, {"elements"}}}

\* render_thumbnail is called with document doc and subject image img on a
\* system where font files exist (f) or not
RenderCall(doc, img, f) ==
    /\ layout_data = doc
    /\ raw = doc
    /\ user_image = img
    /\ fonts = f

InitRender ==
    /\ \/ \E d \in DocsAround(TextGeometryElements) :
             RenderCall(d, Image("RGBA", 400, 200), TRUE)
       \/ \E d \in DocsAround(TextEffectElements), f \in BOOLEAN :
             RenderCall(d, Image("RGBA", 400, 200), f)
       \/ \E d \in DocsAround(ImageBoxElements), img \in Subjects \cup {NoImage} :
             RenderCall(d, img, TRUE)
       \/ \E d \in DocsAround({Num(5), Null}), img \in {NoImage, Image("RGBA", 400, 200)} :
             RenderCall(d, img, TRUE)
       \/ \E d \in BackgroundDocs, img \in {NoImage, Image("RGBA", 400, 200)} :
             RenderCall(d, img, TRUE)
       \/ \E d \in FitDocs, img \in FitSubjects :
             RenderCall(d, img, TRUE)
       \/ \E d \in DocsAround(TextAlignmentElements) :
             RenderCall(d, NoImage, TRUE)
       \/ \E d \in OutsideDocs :
             RenderCall(d, Image("RGBA", 400, 200), TRUE)
    /\ pc = "r_start"
    /\ idx = 0
    /\ exc = "none"
    /\ warnings = {}
    /\ canvas = <<>>
    /\ calls = <<>>
    /\ diagnostics = {}
    /\ OthersIdle

SpecRender == InitRender /\ [][NextRender]_vars

(***************************************************************************)
(* A session of renders on one system: every call constructs a renderer    *)
(* (app.py creates a ThumbnailRenderer per render) and runs                 *)
(* render_thumbnail; the results of the finished calls are kept for         *)
(* comparison.                                                              *)
(***************************************************************************)
MaxRenders == 3

SessionDocs ==
    {Pick([background |-> DefaultBackground,
           elements |-> Arr(<<Pick(TextTemplate("title"), DOMAIN TextTemplate("title")),
                              Pick(ImageTemplate(0), DOMAIN ImageTemplate(0))>>)],
          {"background", "elements"}),
     Pick([background |-> Pick([type |-> Str("solid"), color |-> Str("#112233")], {"type", "color"}),
           elements |-> Arr(<<Pick(ImageTemplate(0), DOMAIN ImageTemplate(0)),
                              Pick(TextTemplate("subtitle"), DOMAIN TextTemplate("subtitle"))>>)],
          {"background", "elements"}),
     Pick([background |-> DefaultBackground,
           elements |-> Arr(<<Pick([type |-> Str("text"), content |-> Num(5)], {"type", "content"})>>)],
          {"background", "elements"}),
     Pick([background |-> Null, elements |-> Arr(<<>>)], {"background", "elements"})}

SessionImages == {NoImage, Image("RGBA", 400, 200)}

\* what a finished call of render_thumbnail was given and what it produced
Finished == [layout |-> layout_data, image |-> user_image, exc |-> exc, canvas |-> canvas]

InitSession ==
    /\ \E d \in SessionDocs, img \in SessionImages, f \in BOOLEAN : RenderCall(d, img, f)
    /\ pc = "r_start"
    /\ idx = 0
    /\ exc = "none"
    /\ warnings = {}
    /\ canvas = <<>>
    /\ calls = <<>>
    /\ diagnostics = {}
    /\ OthersIdle

\* app.py:268-269 (352-353, 394-395): after a render has returned or
\* raised, a renderer is constructed and render_thumbnail is called again;
\* the canvas of the previous call stays what it is
RenderAgain ==
    /\ pc \in {"r_done", "r_raised"}
    /\ Len(rendered) + 1 < MaxRenders
    /\ rendered' = Append(rendered, Finished)
    /\ \E d \in SessionDocs, img \in SessionImages :
          /\ layout_data' = d
          /\ raw' = d
          /\ user_image' = img
    /\ pc' = "r_start"
    /\ idx' = 0
    /\ exc' = "none"
    /\ diagnostics' = {}
    /\ UNCHANGED <<warnings, fonts, canvas, calls, hexVars, generateVars, removeVars, storeVars, appVars>>

NextSession ==
    \/ NextRender
    \/ RenderAgain

SpecSession == InitSession /\ [][NextSession]_vars

(***************************************************************************)
(* _hex_to_rgb called on its own: colour values as a layout document can   *)
(* hold them, built from an optional run of '#' and three pairs.           *)
(***************************************************************************)
HexPairs ==
    {"00", "FF", "ff", "7f", "A0", "0G", "zz", "-F", "+F", " F", "F ", "_F", "0x", "--"}
HexTails == HexPairs \cup {"", "F", " ", "FFAA"}
HexStrings ==
    {pre \o p1 \o p2 \o p3 : pre \in {"", "#", "##"}, p1 \in HexPairs, p2 \in HexPairs,
                               p3 \in HexTails}
    \cup {"", "#", "#FFFF", "#FFF", "red", "not-a-color"}
HexArguments == {Str(h) : h \in HexStrings} \cup {Null, Num(5), Arr(<<>>)}

InitHex ==
    /\ hex_color \in HexArguments
    /\ rgb = <<>>
    /\ pc = "h_start"
    /\ raw = Null
    /\ layout_data = Null
    /\ idx = 0
    /\ exc = "none"
    /\ warnings = {}
    /\ user_image = NoImage
    /\ fonts = TRUE
    /\ canvas = <<>>
    /\ calls = <<>>
    /\ diagnostics = {}
    /\ SessionIdle /\ GenerateIdle /\ RemoveIdle /\ StoreIdle /\ AppIdle

\* the call returns: every exception of lines 276-277 is caught at 278
HexToRgb ==
    /\ pc = "h_start"
    /\ rgb' = hex_to_rgb(hex_color)
    /\ pc' = "h_done"
    /\ UNCHANGED <<raw, layout_data, idx, exc, warnings, renderVars, hex_color>>
    /\ UNCHANGED <<sessionVars, generateVars, removeVars, storeVars, appVars>>

NextHex == HexToRgb

SpecHex == InitHex /\ [][NextHex]_vars

(***************************************************************************)
(* generate_layout (gpt_layout.py): the chat completion call, the          *)
(* extraction of the JSON text from the response, json.loads, the          *)
(* validator, and the fallback document.                                   *)
(***************************************************************************)
\* str methods of lines 117-165
Find(s, sub, from) ==
    LET at == {i \in from..(Len(s) - Len(sub)) : Slice(s, i, i + Len(sub)) = sub}
    IN  IF at = {} THEN 0 - 1 ELSE CHOOSE i \in at : \A j \in at : i <= j
RFind(s, sub) ==
    LET at == {i \in 0..(Len(s) - Len(sub)) : Slice(s, i, i + Len(sub)) = sub}
    IN  IF at = {} THEN 0 - 1 ELSE CHOOSE i \in at : \A j \in at : i >= j
Contains(s, sub) == Find(s, sub, 0) # 0 - 1
StartsWith(s, sub) == Slice(s, 0, Len(sub)) = sub
EndsWith(s, sub) == Len(s) >= Len(sub) /\ Slice(s, Len(s) - Len(sub), Len(s)) = sub
Count(s, c) == Cardinality({i \in 0..(Len(s) - 1) : CharAt(s, i) = c})
RECURSIVE Repeat(_, _)
Repeat(c, n) == IF n <= 0 THEN "" ELSE c \o Repeat(c, n - 1)

\* a string of the module cannot hold the backquote; '~' stands for it in
\* every modelled response
Backquote == "~"
Fence == Backquote \o Backquote \o Backquote

\* lines 120-131: the text between the fences, or the text itself
Unfenced(text) ==
    LET Between(marker) ==
            LET json_start == Find(text, marker, 0) + Len(marker)
                found == Find(text, Fence, json_start)
                json_end == IF found = 0 - 1 THEN Len(text) ELSE found
            IN  StripSpace(Slice(text, json_start, json_end))
    IN  IF Contains(text, Fence \o "json") THEN Between(Fence \o "json")
        ELSE IF Contains(text, Fence) THEN Between(Fence)
        ELSE text

\* lines 158-165: missing closing braces are appended; a surplus of
\* closing braces cuts the text after its last '}', where it already ends
Balanced(text) ==
    LET brace_count == Count(text, "{") - Count(text, "}")
    IN  IF brace_count > 0 THEN text \o Repeat("}", brace_count)
        ELSE IF brace_count < 0 THEN Slice(text, 0, RFind(text, "}") + 1)
        ELSE text

\* lines 117-167: the text handed to json.loads, or the early return of
\* the fallback at line 137, 146 or 155
ExtractJson(content) ==
    LET t1 == Unfenced(StripSpace(content))
        t2 == IF StartsWith(t1, "{") THEN t1 ELSE Slice(t1, Find(t1, "{", 0), Len(t1))
        t3 == IF EndsWith(t2, "}") THEN t2 ELSE Slice(t2, 0, RFind(t2, "}") + 1)
    IN  IF t1 = "" THEN [fallback |-> TRUE, text |-> t1]
        ELSE IF ~StartsWith(t1, "{") /\ Find(t1, "{", 0) = 0 - 1 THEN [fallback |-> TRUE, text |-> t1]
        ELSE IF ~EndsWith(t2, "}") /\ RFind(t2, "}") = 0 - 1 THEN [fallback |-> TRUE, text |-> t2]
        ELSE [fallback |-> FALSE, text |-> Balanced(t3)]

\* the JSON texts of the modelled responses
JsonEmpty == "{}"
JsonNoElements == "{\"elements\": []}"
JsonTextFarRight == "{\"elements\": [{\"type\": \"text\", \"role\": \"title\", \"x\": 1300}]}"
JsonTextStringX == "{\"elements\": [{\"type\": \"text\", \"x\": \"50\"}]}"
JsonNullElements == "{\"elements\": null}"
JsonCutAfterBackground == "{\"background\": {\"type\": \"solid\"}"
JsonCutInList == "{\"elements\": [{\"type\": \"image\"}"
JsonBadList == "{\"elements\": [}"
JsonSurplusBrace == "{}}"

\* json.loads on the texts extraction yields from the modelled responses:
\* the parsed document, or JSONDecodeError for every other text
JsonLoads(text) ==
    LET Parsed(doc) == [raised |-> FALSE, value |-> doc]
    IN  CASE text = JsonEmpty -> Parsed(EmptyDict)
          [] text = JsonNoElements -> Parsed(Pick([elements |-> Arr(<<>>)], {"elements"}))
          [] text = JsonTextFarRight ->
                Parsed(Pick([elements |-> Arr(<<Pick([type |-> Str("text"), role |-> Str("title"),
                                                      x |-> Num(1300)], {"type", "role", "x"})>>)],
                            {"elements"}))
          [] text = JsonTextStringX ->
                Parsed(Pick([elements |-> Arr(<<Pick([type |-> Str("text"), x |-> Str("50")],
                                                     {"type", "x"})>>)], {"elements"}))
          [] text = JsonNullElements -> Parsed(Pick([elements |-> Null], {"elements"}))
          [] text = JsonCutAfterBackground \o "}" ->
                Parsed(Pick([background |-> Pick([type |-> Str("solid")], {"type"})], {"background"}))
          [] OTHER -> [raised |-> TRUE, value |-> Null]

\* the Japanese default title and subtitle of lines 263 and 278
FallbackTitle == "default title"
FallbackSubtitle == "default subtitle"

\* x or default: None and the empty string are false
OrDefault(x, default) == IF x = Null \/ x = Str("") THEN Str(default) ELSE x

\* _get_fallback_layout
FallbackLayout(t, st) ==
    Pick([background |-> DefaultBackground,
          elements |-> Arr(<<
              Obj([type |-> Str("text"), role |-> Str("title"), content |-> OrDefault(t, FallbackTitle),
                   x |-> Num(50), y |-> Num(100), fontSize |-> Num(72), color |-> Str("#FFFFFF"),
                   fontWeight |-> Str("bold"), alignment |-> Str("left"),
                   stroke |-> Obj([color |-> Str("#000000"), width |-> Num(4)])]),
              Obj([type |-> Str("text"), role |-> Str("subtitle"),
                   content |-> OrDefault(st, FallbackSubtitle),
                   x |-> Num(50), y |-> Num(200), fontSize |-> Num(48), color |-> Str("#FFFF00"),
                   fontWeight |-> Str("bold"), alignment |-> Str("left"),
                   stroke |-> Obj([color |-> Str("#FF0000"), width |-> Num(3)])]),
              Obj([type |-> Str("image"), x |-> Num(700), y |-> Num(150),
                   width |-> Num(400), height |-> Num(400), rotation |-> Num(0)])>>)],
         {"background", "elements"})

\* return self._get_fallback_layout(title, subtitle)
ReturnFallback ==
    /\ returned' = FallbackLayout(title, subtitle)
    /\ pc' = "g_done"

\* lines 102-115: the call raises, the response has no choice, or its
\* content cannot be printed (all caught at line 181), or is None or empty
GenerateCall ==
    /\ pc = "g_call"
    /\ IF \/ response.kind # "content"
          \/ PrintRaises(response.content)
          \/ response.content \in {Null, Str("")}
       THEN ReturnFallback /\ UNCHANGED response_text
       ELSE response_text' = response.content.s /\ pc' = "g_extract" /\ UNCHANGED returned
    /\ UNCHANGED <<raw, layout_data, idx, exc, warnings, renderVars>>
    /\ UNCHANGED <<title, subtitle, response, validations, sessionVars, hexVars, removeVars, storeVars, appVars>>

\* lines 117-167
GenerateExtract ==
    /\ pc = "g_extract"
    /\ LET out == ExtractJson(response_text)
       IN  /\ response_text' = out.text
           /\ IF out.fallback THEN ReturnFallback ELSE pc' = "g_parse" /\ UNCHANGED returned
    /\ UNCHANGED <<raw, layout_data, idx, exc, warnings, renderVars>>
    /\ UNCHANGED <<title, subtitle, response, validations, sessionVars, hexVars, removeVars, storeVars, appVars>>

\* line 169 with the handler of lines 176-180, and the call of line 172;
\* in the mutant the fallback document is handed to the validator
GenerateParseValidatingFallback ==
    /\ pc = "g_parse"
    /\ LET parsed == JsonLoads(response_text)
       IN  /\ layout_data' = IF parsed.raised THEN FallbackLayout(title, subtitle) ELSE parsed.value
           /\ raw' = layout_data'
    /\ validations' = validations + 1
    /\ pc' = "v_defaults"
    /\ UNCHANGED <<idx, exc, warnings, renderVars, returned>>
    /\ UNCHANGED <<title, subtitle, response, response_text, sessionVars, hexVars, removeVars, storeVars, appVars>>
GenerateParse ==
    /\ pc = "g_parse"
    /\ LET parsed == JsonLoads(response_text)
       IN  IF parsed.raised
           THEN /\ ReturnFallback
                /\ UNCHANGED <<raw, layout_data, validations>>
           ELSE /\ layout_data' = parsed.value
                /\ raw' = parsed.value
                /\ validations' = validations + 1
                /\ pc' = "v_defaults"
                /\ UNCHANGED returned
    /\ UNCHANGED <<idx, exc, warnings, renderVars>>
    /\ UNCHANGED <<title, subtitle, response, response_text, sessionVars, hexVars, removeVars, storeVars, appVars>>

\* line 174: the validator has returned
GenerateReturn ==
    /\ pc = "v_done"
    /\ returned' = layout_data
    /\ pc' = "g_done"
    /\ UNCHANGED <<raw, layout_data, idx, exc, warnings, renderVars>>
    /\ UNCHANGED <<title, subtitle, response, response_text, validations>>
    /\ UNCHANGED <<sessionVars, hexVars, removeVars, storeVars, appVars>>

\* lines 181-183: the validator has raised
GenerateCatch ==
    /\ pc = "v_raised"
    /\ ReturnFallback
    /\ exc' = "none"
    /\ UNCHANGED <<raw, layout_data, idx, warnings, renderVars>>
    /\ UNCHANGED <<title, subtitle, response, response_text, validations>>
    /\ UNCHANGED <<sessionVars, hexVars, removeVars, storeVars, appVars>>

\* responses: every JSON text as it is, padded, fenced, fenced without a
\* closing fence, and inside prose; texts without JSON; no text at all
JsonTexts ==
    {JsonEmpty, JsonNoElements, JsonTextFarRight, JsonTextStringX, JsonNullElements,
     JsonCutAfterBackground, JsonCutInList, JsonBadList, JsonSurplusBrace,
     "{", "} {", "[1, 2]", "no layout"}
ResponseTexts ==
    UNION {{j, "  " \o j \o "\n", Fence \o "json\n" \o j \o "\n" \o Fence,
            Fence \o "\n" \o j \o "\n" \o Fence, Fence \o "json\n" \o j,
            "Here is the layout: " \o j \o " Enjoy!"} : j \in JsonTexts}
    \cup {"", "  \n", Fence \o "json" \o Fence, Fence \o Fence, SurrogateText}
Responses ==
    {[kind |-> "raises"], [kind |-> "no_choices"], [kind |-> "content", content |-> Null]}
    \cup {[kind |-> "content", content |-> Str(t)] : t \in ResponseTexts}

InitGenerate ==
    /\ title \in {Null, Str(""), Str("My title")}
    /\ subtitle \in {Null, Str("My subtitle")}
    /\ response \in Responses
    /\ response_text = ""
    /\ returned = Null
    /\ validations = 0
    /\ pc = "g_call"
    /\ raw = Null
    /\ layout_data = Null
    /\ idx = 0
    /\ exc = "none"
    /\ warnings = {}
    /\ user_image = NoImage
    /\ fonts = TRUE
    /\ canvas = <<>>
    /\ calls = <<>>
    /\ diagnostics = {}
    /\ SessionIdle /\ HexIdle /\ RemoveIdle /\ StoreIdle /\ AppIdle

NextGenerate ==
    \/ GenerateCall
    \/ GenerateExtract
    \/ GenerateParse
    \/ NextValidate
    \/ GenerateReturn
    \/ GenerateCatch

SpecGenerate == InitGenerate /\ [][NextGenerate]_vars

(***************************************************************************)
(* remove_background (remove_bg.py): the upload of the image, the request  *)
(* to the service, and the fallback that converts the caller's image to    *)
(* RGBA and makes its near-white pixels transparent.  Image objects have   *)
(* an identity: images[1] is the object the caller handed in, and every    *)
(* convert(), copy() and Image.open() makes a new object.  The caller's    *)
(* image is one whose pixel data can be read.                              *)
(***************************************************************************)
\* the largest number of pixels of an image
MaxPixels == 2

\* a PIL image with its pixel data, row after row
ImageObject(mode, size, data) == [mode |-> mode, size |-> size, data |-> data]

\* the channel values around the threshold of line 87
Threshold == 240
Levels == {0, Threshold, Threshold + 1, 255}
RgbPixels ==
    {<<l, l, l>> : l \in Levels}
    \cup {<<240, 241, 241>>, <<241, 240, 241>>, <<241, 241, 240>>, <<255, 0, 0>>}
RgbaPixels == {p \o <<a>> : p \in RgbPixels, a \in {128, 255}}
GreyPixels == {<<l>> : l \in Levels}
PixelsOfMode(mode) ==
    CASE mode = "RGB" -> RgbPixels
      [] mode = "RGBA" -> RgbaPixels
      [] mode = "L" -> GreyPixels

Sizes == {<<w, h>> \in (1..MaxPixels) \X (1..MaxPixels) : w * h <= MaxPixels}
Originals ==
    UNION {{ImageObject(mode, size, data) : data \in [1..(size[1] * size[2]) -> PixelsOfMode(mode)]} :
               mode \in {"RGB", "RGBA", "L"}, size \in Sizes}

\* what the service can send back with status 200: a cut-out of any size
CutOut == ImageObject("RGBA", <<1, 1>>, <<<<12, 34, 56, 0>>>>)

\* what lines 23-36 can yield: image.save raises (a JPEG upload in a mode
\* JPEG cannot hold), requests.post raises, or a response arrives
Services ==
    {[kind |-> "save_raises"], [kind |-> "request_exception"]}
    \cup {[kind |-> "response", status_code |-> s, content |-> Null] : s \in {400, 402, 403, 429, 500}}
    \cup {[kind |-> "response", status_code |-> 200, content |-> c] : c \in {Null, CutOut}}

\* Image.convert('RGBA') of a pixel (lines 63, 74)
ConvertRGBA(mode, p) ==
    CASE mode = "RGBA" -> p
      [] mode = "RGB" -> p \o <<255>>
      [] mode = "L" -> <<p[1], p[1], p[1], 255>>

\* lines 62-65: convert() or copy(), a new object either way
RgbaCopy(img) ==
    ImageObject("RGBA", img.size, [i \in 1..Len(img.data) |-> ConvertRGBA(img.mode, img.data[i])])

\* lines 85-90
SimpleRemoved(item) ==
    IF item[1] > Threshold /\ item[2] > Threshold /\ item[3] > Threshold
    THEN <<255, 255, 255, 0>>
    ELSE item

InitRemove ==
    /\ \E o \in Originals : images = <<o>>
    /\ service \in Services
    /\ result = 0
    /\ pc = "b_save"
    /\ raw = Null
    /\ layout_data = Null
    /\ idx = 0
    /\ exc = "none"
    /\ warnings = {}
    /\ user_image = NoImage
    /\ fonts = TRUE
    /\ canvas = <<>>
    /\ calls = <<>>
    /\ diagnostics = {}
    /\ SessionIdle /\ HexIdle /\ GenerateIdle /\ StoreIdle /\ AppIdle

RemoveUnchanged ==
    UNCHANGED <<raw, layout_data, idx, warnings, renderVars, sessionVars, hexVars, generateVars,
                storeVars, appVars>>

\* lines 23-28: image.save into the buffer
RemoveSave ==
    /\ pc = "b_save"
    /\ IF service.kind = "save_raises"
       THEN pc' = "b_fallback" /\ exc' = "Exception"
       ELSE pc' = "b_post" /\ exc' = exc
    /\ UNCHANGED removeVars
    /\ RemoveUnchanged

\* lines 31-46: the request; status 200 returns what Image.open reads
RemovePost ==
    /\ pc = "b_post"
    /\ IF service.kind = "request_exception"
       THEN pc' = "b_fallback" /\ exc' = "RequestException" /\ UNCHANGED <<images, result>>
       ELSE IF service.status_code # 200
       THEN pc' = "b_fallback" /\ UNCHANGED <<exc, images, result>>
       ELSE IF service.content = Null
       THEN pc' = "b_fallback" /\ exc' = "Exception" /\ UNCHANGED <<images, result>>
       ELSE /\ images' = Append(images, service.content)
            /\ result' = Len(images) + 1
            /\ pc' = "b_done"
            /\ UNCHANGED exc
    /\ UNCHANGED service
    /\ RemoveUnchanged

RemoveFallbackInPlace ==
    /\ pc = "b_fallback"
    /\ IF images[1].mode = "RGBA"
       THEN result' = 1 /\ UNCHANGED images
       ELSE /\ images' = Append(images, RgbaCopy(images[1]))
            /\ result' = Len(images) + 1
    /\ exc' = "none"
    /\ pc' = "b_simple"
    /\ UNCHANGED service
    /\ RemoveUnchanged
\* lines 60-65 of _create_fallback_image, entered from lines 46, 50 and 53
RemoveFallbackCopy ==
    /\ pc = "b_fallback"
    /\ images' = Append(images, RgbaCopy(images[1]))
    /\ result' = Len(images) + 1
    /\ exc' = "none"
    /\ pc' = "b_simple"
    /\ UNCHANGED service
    /\ RemoveUnchanged

\* line 68: _simple_background_removal puts the new data into the image it
\* was given (line 92), and line 70 returns that image.  The handlers of
\* lines 71-74 and 94-96 are not entered for pixel data that can be read.
RemoveSimple ==
    /\ pc = "b_simple"
    /\ images' = [images EXCEPT ![result].data = [i \in 1..Len(@) |-> SimpleRemoved(@[i])]]
    /\ pc' = "b_done"
    /\ UNCHANGED <<exc, service, result>>
    /\ RemoveUnchanged

NextRemove ==
    \/ RemoveSave
    \/ RemovePost
    \/ RemoveFallbackCopy
    \/ RemoveSimple

SpecRemove == InitRemove /\ [][NextRemove]_vars

(***************************************************************************)
(* FirebaseManager (firebase_config.py): one manager and the collection    *)
(* 'thumbnails' it writes to.  Firestore gives every added document a new  *)
(* id; the documents are kept in the order they were added, and the id of  *)
(* a document is its position.  Every Firestore call can raise (network,   *)
(* permissions, a missing index), which every method catches; a write can  *)
(* raise before it is applied ("raises") or after it (the reply is "lost").*)
(***************************************************************************)
\* the largest number of method calls in one behaviour
MaxCalls == 4

NoneValue == [t |-> "None"]
Call(op, arg, raised, value) == [op |-> op, arg |-> arg, raised |-> raised, value |-> value]
Returns(c) ==
    /\ Len(log) < MaxCalls
    /\ log' = Append(log, c)

\* line 58 (95, 155, 187): not self.initialized or not self.db
Unusable == ~store.initialized
Exists(id) == id \in 1..Len(store.docs)
\* the time datetime.now() gives the call that is running
Now == Len(log) + 1

\* lines 159-163: where('status', '==', 'active'), newest first, at most limit
AllDocuments(docs) == {id \in 1..Len(docs) : TRUE}
ActiveDocuments(docs) == {id \in 1..Len(docs) : docs[id].status = "active"}
RECURSIVE NewestFirst(_)
NewestFirst(ids) ==
    IF ids = {} THEN <<>>
    ELSE LET m == CHOOSE i \in ids : \A j \in ids : j <= i
         IN  <<m>> \o NewestFirst(ids \ {m})
Limited(s, limit) == IF Len(s) <= limit THEN s ELSE SubSeq(s, 1, limit)

StoreUnchanged ==
    UNCHANGED <<raw, layout_data, pc, idx, exc, warnings, renderVars, sessionVars, hexVars,
                generateVars, removeVars, appVars>>

InitStore ==
    /\ store \in {[initialized |-> i, docs |-> <<>>] : i \in BOOLEAN}
    /\ log = <<>>
    /\ pc = "s_idle"
    /\ raw = Null
    /\ layout_data = Null
    /\ idx = 0
    /\ exc = "none"
    /\ warnings = {}
    /\ user_image = NoImage
    /\ fonts = TRUE
    /\ canvas = <<>>
    /\ calls = <<>>
    /\ diagnostics = {}
    /\ SessionIdle /\ HexIdle /\ GenerateIdle /\ RemoveIdle /\ AppIdle

\* save_thumbnail_data: lines 58-83
SaveThumbnailData(outcome) ==
    IF Unusable THEN Returns(Call("save", 0, FALSE, NoneValue)) /\ UNCHANGED store
    ELSE IF outcome = "raises" THEN Returns(Call("save", 0, TRUE, NoneValue)) /\ UNCHANGED store
    ELSE /\ store' = [store EXCEPT !.docs = Append(@, [status |-> "active", created_at |-> Now,
                                                      deleted_at |-> 0])]
         /\ IF outcome = "lost" THEN Returns(Call("save", 0, TRUE, NoneValue))
            ELSE Returns(Call("save", 0, FALSE, Len(store.docs) + 1))

\* get_thumbnail_data: lines 95-110
GetThumbnailData(document_id, raises) ==
    /\ UNCHANGED store
    /\ IF Unusable THEN Returns(Call("get", document_id, FALSE, NoneValue))
       ELSE IF raises THEN Returns(Call("get", document_id, TRUE, NoneValue))
       ELSE IF Exists(document_id)
       THEN Returns(Call("get", document_id, FALSE, store.docs[document_id]))
       ELSE Returns(Call("get", document_id, FALSE, NoneValue))

\* list_user_thumbnails: lines 155-175; the value is the document_id of
\* every returned entry, in order
ListUserThumbnails(limit, raises) ==
    /\ UNCHANGED store
    /\ IF Unusable THEN Returns(Call("list", limit, FALSE, <<>>))
       ELSE IF raises THEN Returns(Call("list", limit, TRUE, <<>>))
       ELSE Returns(Call("list", limit, FALSE,
                         Limited(NewestFirst(ActiveDocuments(store.docs)), limit)))

\* delete_thumbnail: lines 187-202; doc_ref.update raises NotFound for a
\* document that does not exist
DeleteThumbnail(document_id, outcome) ==
    IF Unusable THEN Returns(Call("delete", document_id, FALSE, FALSE)) /\ UNCHANGED store
    ELSE IF outcome = "raises" \/ ~Exists(document_id)
    THEN Returns(Call("delete", document_id, TRUE, FALSE)) /\ UNCHANGED store
    ELSE /\ store' = [store EXCEPT !.docs[document_id] =
                         [@ EXCEPT !.status = "deleted", !.deleted_at = Now]]
         /\ IF outcome = "lost" THEN Returns(Call("delete", document_id, TRUE, FALSE))
            ELSE Returns(Call("delete", document_id, FALSE, TRUE))

DocumentIds == 1..2
WriteOutcomes == {"ok", "raises", "lost"}
NextStore ==
    \/ \E outcome \in WriteOutcomes : SaveThumbnailData(outcome) /\ StoreUnchanged
    \/ \E id \in DocumentIds, raises \in BOOLEAN : GetThumbnailData(id, raises) /\ StoreUnchanged
    \/ \E limit \in {1, 10}, raises \in BOOLEAN : ListUserThumbnails(limit, raises) /\ StoreUnchanged
    \/ \E id \in DocumentIds, outcome \in WriteOutcomes : DeleteThumbnail(id, outcome) /\ StoreUnchanged

SpecStore == InitStore /\ [][NextStore]_vars

(***************************************************************************)
(* The page of app.py: the session state and one action per button.  A     *)
(* run of the script handles the one button that was pressed.  invoked     *)
(* holds the calls the latest run made to the background remover and the   *)
(* layout generator (whatever the collaborator then does with its key),    *)
(* each with the session keys at the time of the call.                     *)
(***************************************************************************)
\* render_thumbnail as a function of its arguments: lines 48-72
RECURSIVE ImageLoop(_, _, _)
ImageLoop(elements, img, k) ==
    IF k > Len(elements) THEN Outcome("none", "none", <<>>)
    ELSE IF ~IsObj(elements[k]) THEN Outcome("AttributeError", "none", <<>>)
    ELSE LET out == IF Get(elements[k], "type", Null) = Str("image") /\ img # NoImage
                    THEN draw_image(elements[k], img, k)
                    ELSE Outcome("none", "none", <<>>)
         IN  IF out.escaped # "none" THEN out
             ELSE LET rest == ImageLoop(elements, img, k + 1)
                  IN  Outcome(rest.escaped, "none", out.paints \o rest.paints)
RECURSIVE TextLoop(_, _)
TextLoop(elements, k) ==
    IF k > Len(elements) THEN Outcome("none", "none", <<>>)
    ELSE LET out == IF Get(elements[k], "type", Null) = Str("text")
                    THEN draw_text_with_effects(elements[k], k)
                    ELSE Outcome("none", "none", <<>>)
         IN  IF out.escaped # "none" THEN out
             ELSE LET rest == TextLoop(elements, k + 1)
                  IN  Outcome(rest.escaped, "none", out.paints \o rest.paints)
render_thumbnail(layout, img) ==
    LET bg == draw_background(Get(layout, "background", EmptyDict))
        elements == Get(layout, "elements", Arr(<<>>))
    IN  IF bg.escaped # "none" THEN Outcome(bg.escaped, "none", bg.paints)
        ELSE IF ~IsArr(elements) THEN Outcome("TypeError", "none", bg.paints)
        ELSE LET first == ImageLoop(elements.a, img, 1)
             IN  IF first.escaped # "none"
                 THEN Outcome(first.escaped, "none", bg.paints \o first.paints)
                 ELSE LET second == TextLoop(elements.a, 1)
                      IN  Outcome(second.escaped, "none",
                                  bg.paints \o first.paints \o second.paints)

\* validate_api_keys: the errors, in order
KeyFails(key, placeholder) == key = "" \/ StartsWith(key, placeholder) \/ Len(StripSpace(key)) = 0
validate_api_keys(openai_key, remove_bg_key) ==
    (IF KeyFails(openai_key, "sk-your-") THEN <<"openai">> ELSE <<>>)
    \o (IF KeyFails(remove_bg_key, "your-remove-bg") THEN <<"remove_bg">> ELSE <<>>)

OpenAIKeys == {"", " ", "sk-your-openai-api-key", "sk-live"}
RemoveBgKeys == {"", "your-remove-bg-api-key", "rb-live"}

\* what the uploader holds: nothing, a file PIL cannot read, or a picture;
\* remove_background returns the cut-out of the picture
UploadedFiles == {"none", "unreadable", "wide", "tall"}
Processed(file) == IF file = "wide" THEN Image("RGBA", 400, 200) ELSE Image("RGBA", 200, 400)

\* documents generate_layout can return: the fallback for the title and
\* subtitle it was given, or a parsed document the validator accepted
ValidatedLayouts ==
    {Pick([background |-> bg,
           elements |-> Arr(<<Pick(TextTemplate("title"), DOMAIN TextTemplate("title")),
                              Pick(TextTemplate("subtitle"), DOMAIN TextTemplate("subtitle")),
                              Pick(ImageTemplate(0), DOMAIN ImageTemplate(0))>>)],
          {"background", "elements"}) :
        bg \in {Pick([type |-> Str("solid"), color |-> Str("#112233")], {"type", "color"}),
                Pick([type |-> Str("solid"), color |-> Str("notacolor")], {"type", "color"})}}
GeneratedLayouts(t, st) == {FallbackLayout(t, st)} \cup ValidatedLayouts

Invocation(who) ==
    [who |-> who, openai_key |-> session.openai_key, remove_bg_key |-> session.remove_bg_key]

\* lines 261-267, 349-353, 389-395: the layout is stored, then rendered with
\* image, and the thumbnail is stored when render_thumbnail returned
LayoutThenRender(s, layout, image) ==
    LET s1 == [s EXCEPT !.current_layout = layout]
        r == render_thumbnail(layout, image)
    IN  IF r.escaped # "none" THEN s1 ELSE [s1 EXCEPT !.generated_thumbnail = r.paints]

AppUnchanged ==
    UNCHANGED <<raw, layout_data, pc, idx, exc, warnings, renderVars, sessionVars, hexVars,
                generateVars, removeVars, storeVars>>

\* init_session_state: lines 16-29
InitApp ==
    /\ \E ok \in OpenAIKeys, rk \in RemoveBgKeys :
          session = [generated_thumbnail |-> Null, current_layout |-> Null,
                     processed_image |-> Null, openai_key |-> ok, remove_bg_key |-> rk]
    /\ invoked = <<>>
    /\ pc = "a_page"
    /\ raw = Null
    /\ layout_data = Null
    /\ idx = 0
    /\ exc = "none"
    /\ warnings = {}
    /\ user_image = NoImage
    /\ fonts = TRUE
    /\ canvas = <<>>
    /\ calls = <<>>
    /\ diagnostics = {}
    /\ SessionIdle /\ HexIdle /\ GenerateIdle /\ RemoveIdle /\ StoreIdle

\* lines 126-130: the keys typed into the two inputs
UpdateKeys(openai_key, remove_bg_key) ==
    /\ session' = [session EXCEPT !.openai_key = openai_key, !.remove_bg_key = remove_bg_key]
    /\ invoked' = <<>>

\* lines 224-277
Generate(uploaded_file, title_text, subtitle_text, layout) ==
    IF validate_api_keys(session.openai_key, session.remove_bg_key) # <<>>
    THEN invoked' = <<>> /\ UNCHANGED session
    ELSE IF uploaded_file = "none" \/ title_text = ""
    THEN invoked' = <<>> /\ UNCHANGED session
    ELSE IF uploaded_file = "unreadable"
    THEN invoked' = <<>> /\ UNCHANGED session
    ELSE /\ invoked' = <<Invocation("remover"), Invocation("generator")>>
         /\ layout \in GeneratedLayouts(Str(title_text), Str(subtitle_text))
         /\ session' = LayoutThenRender(
                           [session EXCEPT !.processed_image = Processed(uploaded_file)],
                           layout, Processed(uploaded_file))

\* lines 335-360: the section is on the page when a thumbnail is set
QuickAdjust(quick_adjustments, layout) ==
    /\ session.generated_thumbnail # Null
    /\ IF quick_adjustments = "custom"
       THEN invoked' = <<>> /\ UNCHANGED session
       ELSE /\ invoked' = <<Invocation("generator")>>
            /\ layout \in GeneratedLayouts(Null, Null)
            /\ session' = LayoutThenRender(session, layout, session.processed_image)

\* lines 369-404
CustomAdjust(adjustment_text, layout) ==
    /\ session.generated_thumbnail # Null
    /\ IF adjustment_text = ""
       THEN invoked' = <<>> /\ UNCHANGED session
       ELSE /\ invoked' = <<Invocation("generator")>>
            /\ layout \in GeneratedLayouts(Null, Null)
            /\ session' = LayoutThenRender(session, layout, session.processed_image)

AllLayouts ==
    ValidatedLayouts \cup {FallbackLayout(Null, Null), FallbackLayout(Str("T"), Str(""))}
NextApp ==
    \/ \E ok \in OpenAIKeys, rk \in RemoveBgKeys : UpdateKeys(ok, rk) /\ AppUnchanged
    \/ \E f \in UploadedFiles, t \in {"", "T"}, layout \in AllLayouts :
          Generate(f, t, "", layout) /\ AppUnchanged
    \/ \E q \in {"custom", "larger text"}, layout \in AllLayouts :
          QuickAdjust(q, layout) /\ AppUnchanged
    \/ \E a \in {"", "move the title"}, layout \in AllLayouts :
          CustomAdjust(a, layout) /\ AppUnchanged

SpecApp == InitApp /\ [][NextApp]_vars

(***************************************************************************)
(* Properties of the validator, checked under SpecValidate.                *)
(***************************************************************************)
ValidatedElements == Elements(layout_data)
RawElement(k) == raw.o["elements"].a[k]
InRange(v, lo, hi) == IsNum(v) /\ lo <= v.n /\ v.n <= hi

\* C1: the validator never fails: for every raw document, wrong-typed
\* values included, it returns a document instead of raising.
ValidatorNeverRaises == pc # "v_raised"

\* C7: after validation every image element has rotation = 0, whatever
\* rotation the raw document carried.
ImageRotationAlwaysZero ==
    pc = "v_done" =>
        \A k \in 1..Len(ValidatedElements) :
            Get(ValidatedElements[k], "type", Null) = Str("image")
                => Get(ValidatedElements[k], "rotation", Null) = Num(0)

\* C8 as stated: after validation every element, with or without x/y in
\* the raw input, has an x in 0..1280 and a y in 0..720.
EveryElementHasClampedXY ==
    pc = "v_done" =>
        \A k \in 1..Len(ValidatedElements) :
            /\ InRange(Get(ValidatedElements[k], "x", Null), 0, 1280)
            /\ InRange(Get(ValidatedElements[k], "y", Null), 0, 720)

\* C8 as amended: after validation every element that carries x in the raw
\* input has an x in 0..1280 and every element that carries y has a y in
\* 0..720, whatever its type; an element without x (or y) in the raw input
\* still has none.
PresentCoordsClamped ==
    pc = "v_done" =>
        \A k \in 1..Len(ValidatedElements) :
            LET e == ValidatedElements[k]
            IN  /\ Has(e, "x") <=> Has(RawElement(k), "x")
                /\ Has(e, "y") <=> Has(RawElement(k), "y")
                /\ Has(e, "x") => InRange(e.o["x"], 0, 1280)
                /\ Has(e, "y") => InRange(e.o["y"], 0, 720)

\* a returned document one of whose raw elements lay right of the canvas
\* and had no y
ClampedOutOfRangeX ==
    /\ pc = "v_done"
    /\ \E k \in 1..Len(ValidatedElements) :
          /\ Has(RawElement(k), "x") /\ RawElement(k).o["x"].n > 1280
          /\ ~Has(RawElement(k), "y")
          /\ ValidatedElements[k].o["x"] = Num(1280)

GradientCoralToTeal ==
    Obj([type |-> Str("gradient"), gradientStart |-> Str("#FF6B6B"),
         gradientEnd |-> Str("#4ECDC4"), gradientDirection |-> Str("horizontal")])

\* C9 as stated: a missing background becomes the gradient #FF6B6B ->
\* #4ECDC4, horizontal, missing elements become the empty sequence, and a
\* background or element sequence present in the raw document is returned
\* unchanged.
TopLevelDefaultedOrUnchanged ==
    pc = "v_done" =>
        /\ ~Has(raw, "background") => layout_data.o["background"] = GradientCoralToTeal
        /\ ~Has(raw, "elements") => layout_data.o["elements"] = Arr(<<>>)
        /\ Has(raw, "background") => layout_data.o["background"] = raw.o["background"]
        /\ Has(raw, "elements") => layout_data.o["elements"] = raw.o["elements"]

\* C9 as amended: the defaults as stated; a background present in the raw
\* document is returned unchanged; an element sequence present in the raw
\* document keeps its length and order, and each element keeps every raw
\* field with its value except x and y (it is clamped and defaulted, not
\* returned unchanged).
TopLevelDefaultedOrKept ==
    pc = "v_done" =>
        /\ ~Has(raw, "background") => layout_data.o["background"] = GradientCoralToTeal
        /\ ~Has(raw, "elements") => layout_data.o["elements"] = Arr(<<>>)
        /\ Has(raw, "background") => layout_data.o["background"] = raw.o["background"]
        /\ Has(raw, "elements") =>
              /\ Len(ValidatedElements) = Len(raw.o["elements"].a)
              /\ \A k \in 1..Len(ValidatedElements) :
                    /\ DOMAIN RawElement(k).o \subseteq DOMAIN ValidatedElements[k].o
                    /\ \A f \in DOMAIN RawElement(k).o \ {"x", "y"} :
                          ValidatedElements[k].o[f] = RawElement(k).o[f]

\* validate({}) has returned
ValidatedEmptyDocument ==
    /\ pc = "v_done"
    /\ DOMAIN raw.o = {}

\* C10: after validation every text element has fontSize, color,
\* fontWeight, alignment and stroke; a field absent in the raw element has
\* its default (fontSize 72 for role "title" else 36, color #FFFFFF,
\* fontWeight bold, alignment left, stroke #000000 of width 4 for role
\* "title" else 3), a field present in the raw element keeps its value.
TextDefaultsCompleted ==
    pc = "v_done" =>
        \A k \in 1..Len(ValidatedElements) :
            LET e == ValidatedElements[k]
                r == RawElement(k)
                is_title == Has(r, "role") /\ r.o["role"] = Str("title")
            IN  Get(e, "type", Null) = Str("text") =>
                  /\ \A f \in TextStyleFields :
                        Has(e, f) /\ (Has(r, f) => e.o[f] = r.o[f])
                  /\ ~Has(r, "fontSize") => e.o["fontSize"] = Num(IF is_title THEN 72 ELSE 36)
                  /\ ~Has(r, "color") => e.o["color"] = Str("#FFFFFF")
                  /\ ~Has(r, "fontWeight") => e.o["fontWeight"] = Str("bold")
                  /\ ~Has(r, "alignment") => e.o["alignment"] = Str("left")
                  /\ ~Has(r, "stroke") =>
                        e.o["stroke"] = Obj([color |-> Str("#000000"),
                                             width |-> Num(IF is_title THEN 4 ELSE 3)])

\* a returned document with a title text that came without stroke and
\* fontSize but with its own color
TitleWithoutStrokeValidated ==
    /\ pc = "v_done"
    /\ \E k \in 1..Len(ValidatedElements) :
          /\ Get(RawElement(k), "type", Null) = Str("text")
          /\ Get(RawElement(k), "role", Null) = Str("title")
          /\ ~Has(RawElement(k), "stroke") /\ ~Has(RawElement(k), "fontSize")
          /\ Has(RawElement(k), "color")
          /\ ValidatedElements[k].o["stroke"].o["width"] = Num(4)

(***************************************************************************)
(* Properties of the renderer, checked under SpecRender.                   *)
(***************************************************************************)
InsideCanvas(p) ==
    /\ 0 <= p.x /\ p.x + p.w <= 1280
    /\ 0 <= p.y /\ p.y + p.h <= 720

TypeOf(k) == Get(RenderElements.a[k], "type", Null)

\* C2: the box at which a text element is painted (the final x, y extended
\* by the measured width and height) lies within the canvas, also for text
\* measured wider or higher than the canvas.
TextBoxWithinCanvas ==
    \A n \in 1..Len(canvas) : canvas[n].kind = "text" => InsideCanvas(canvas[n])

\* C3: the rectangle at which the resized subject is pasted lies within the
\* canvas, also for declared boxes larger than the canvas.
ImageBoxWithinCanvas ==
    \A n \in 1..Len(canvas) : canvas[n].kind = "image" => InsideCanvas(canvas[n])

\* C4: in every render the background painter is called first, then the
\* image painter for every image element, then the text painter for every
\* text element, each group in document order, whatever the order of the
\* elements in the document; no image is painted after a text.  (The image
\* pass has something to paint only when a subject image was given.)
PaintOrderFixed ==
    /\ \A n \in 1..Len(calls) : calls[n].painter = "background" <=> n = 1
    /\ \A m, n \in 1..Len(calls) :
          m < n => /\ ~(calls[m].painter = "text" /\ calls[n].painter = "image")
                   /\ calls[m].painter = calls[n].painter => calls[m].elem < calls[n].elem
    /\ \A m, n \in 1..Len(canvas) :
          m < n => /\ canvas[n].kind # "background"
                   /\ canvas[m].kind \in {"stroke", "text"} => canvas[n].kind # "image"
                   /\ canvas[m].kind = "image" /\ canvas[n].kind = "image"
                         => canvas[m].elem < canvas[n].elem
                   /\ canvas[m].kind \in {"stroke", "text"} /\ canvas[n].kind \in {"stroke", "text"}
                         => canvas[m].elem <= canvas[n].elem
    /\ pc = "r_done" =>
          /\ \A k \in 1..Len(RenderElements.a) :
                /\ TypeOf(k) = Str("text")
                      => \E n \in 1..Len(calls) : calls[n] = [painter |-> "text", elem |-> k]
                /\ TypeOf(k) = Str("image") /\ user_image # NoImage
                      => \E n \in 1..Len(calls) : calls[n] = [painter |-> "image", elem |-> k]
          /\ \A n \in 2..Len(calls) : TypeOf(calls[n].elem) = Str(calls[n].painter)

\* a finished render in which an image element declared after a text
\* element was painted before that text
ImageDeclaredLaterPaintedEarlier ==
    /\ pc = "r_done"
    /\ \E m, n \in 1..Len(canvas) :
          /\ m < n
          /\ canvas[m].kind = "image" /\ canvas[n].kind = "text"
          /\ canvas[n].elem < canvas[m].elem

\* C5: when painting one text element fails, the failure is caught inside
\* the text painter, that element alone is skipped, every other text
\* element is still painted, and render returns the canvas.
TextFailureSkipsOnlyThatElement ==
    /\ pc = "r_raised" => calls[Len(calls)].painter # "text"
    /\ pc = "r_done" =>
          \A k \in 1..Len(RenderElements.a) :
              TypeOf(k) = Str("text") =>
                  (k \notin diagnostics
                      <=> \E n \in 1..Len(canvas) : canvas[n].kind = "text" /\ canvas[n].elem = k)

\* C6: render_thumbnail returns a canvas for every layout document: no
\* malformed input, unavailable resource or failing element makes it raise.
RenderNeverRaises == pc # "r_raised"

\* the image elements for which the image painter has been called with a
\* box of positive numbers
FittedElements ==
    {calls[n].elem : n \in {m \in 1..Len(calls) :
        /\ calls[m].painter = "image"
        /\ LET e == RenderElements.a[calls[m].elem]
           IN  /\ IsNum(Get(e, "width", Num(300))) /\ Get(e, "width", Num(300)).n > 0
               /\ IsNum(Get(e, "height", Num(300))) /\ Get(e, "height", Num(300)).n > 0}}
BoxW(k) == Get(RenderElements.a[k], "width", Num(300)).n
BoxH(k) == Get(RenderElements.a[k], "height", Num(300)).n
OutW(k) == ResizedWidth(BoxW(k), BoxH(k), user_image)
OutH(k) == ResizedHeight(BoxW(k), BoxH(k), user_image)

\* the size at which element k is on the canvas is the size computed for it
PastedAtFittedSize(k) ==
    \A n \in 1..Len(canvas) :
        canvas[n].kind = "image" /\ canvas[n].elem = k
            => canvas[n].w = OutW(k) /\ canvas[n].h = OutH(k)

FitExamples(k) ==
    /\ user_image.width = 400 /\ user_image.height = 200 /\ BoxW(k) = 300 /\ BoxH(k) = 300
          => OutW(k) = 300 /\ OutH(k) = 150
    /\ user_image.width = 200 /\ user_image.height = 400 /\ BoxW(k) = 300 /\ BoxH(k) = 300
          => OutW(k) = 150 /\ OutH(k) = 300

\* C12 as stated: for every source size and box with positive dimensions
\* the aspect fit returns (outW, outH) in which exactly one of outW = boxW,
\* outH = boxH holds, also when source and box have the same aspect ratio;
\* (400,200) in (300,300) gives (300,150), (200,400) in (300,300) gives
\* (150,300).
AspectFitExactlyOneSide ==
    \A k \in FittedElements :
        /\ PastedAtFittedSize(k)
        /\ (OutW(k) = BoxW(k)) # (OutH(k) = BoxH(k))
        /\ FitExamples(k)

\* C12 as amended: the aspect fit returns (outW, outH) within the box in
\* which at least one of outW = boxW, outH = boxH holds: exactly one when
\* the aspect ratios of source and box differ, and both only when they are
\* equal; the two examples as stated.
AspectFitAtLeastOneSide ==
    \A k \in FittedElements :
        /\ PastedAtFittedSize(k)
        /\ OutW(k) <= BoxW(k) /\ OutH(k) <= BoxH(k)
        /\ OutW(k) = BoxW(k) \/ OutH(k) = BoxH(k)
        /\ (OutW(k) = BoxW(k) /\ OutH(k) = BoxH(k))
              => user_image.width * BoxH(k) = BoxW(k) * user_image.height
        /\ FitExamples(k)

\* a 400x200 subject was fitted into a 300x150 box and pasted at 300x150
FittedBoxOfSameRatio ==
    \E n \in 1..Len(canvas) :
        /\ canvas[n].kind = "image" /\ canvas[n].w = 300 /\ canvas[n].h = 150
        /\ user_image.width = 400 /\ user_image.height = 200
        /\ BoxW(canvas[n].elem) = 300 /\ BoxH(canvas[n].elem) = 150

(***************************************************************************)
(* Properties of a session of renders, checked under SpecSession.          *)
(***************************************************************************)
\* the calls of this session that have ended, oldest first
EndedRenders == IF pc \in {"r_done", "r_raised"} THEN Append(rendered, Finished) ELSE rendered

\* C11: render is deterministic: two calls of render_thumbnail with the
\* same layout document and the same subject image, whatever other renders
\* ran before or between them, end the same way and produce the same canvas.
RenderDeterministic ==
    \A m, n \in 1..Len(EndedRenders) :
        EndedRenders[m].layout = EndedRenders[n].layout
            /\ EndedRenders[m].image = EndedRenders[n].image
        => /\ EndedRenders[m].exc = EndedRenders[n].exc
           /\ EndedRenders[m].canvas = EndedRenders[n].canvas

\* a document was rendered, then another one, then the first one again, and
\* the first one has a text and an image painted over its background
RenderedSameInputsTwice ==
    /\ pc = "r_done"
    /\ Len(rendered) = 2
    /\ rendered[1].layout = layout_data /\ rendered[1].image = user_image
    /\ rendered[2].layout # layout_data
    /\ Len(rendered[2].canvas) > 0
    /\ Len(canvas) >= 3

(***************************************************************************)
(* Properties of _hex_to_rgb, checked under SpecHex.                       *)
(***************************************************************************)
\* '#' followed by exactly six hex digits
IsSharpSixHex(v) ==
    /\ IsStr(v)
    /\ Len(v.s) = 7
    /\ CharAt(v.s, 0) = "#"
    /\ \A i \in 1..6 : IsHexDigit(CharAt(v.s, i))
PairValue(v, n) ==
    16 * HexDigitValue(CharAt(v.s, 2 * n - 1)) + HexDigitValue(CharAt(v.s, 2 * n))

\* C13: _hex_to_rgb never raises; for '#' followed by six hex digits it
\* returns the values of the three 2-digit pairs, for every other input
\* (too short, characters that are no hex digits, a sign or a space inside
\* a pair, a value that is no string) it returns (0,0,0); every returned
\* channel is within 0..255.
HexToRgbFailsClosed ==
    /\ pc # "h_raised"
    /\ pc = "h_done" =>
          /\ IsSharpSixHex(hex_color)
                => rgb = <<PairValue(hex_color, 1), PairValue(hex_color, 2), PairValue(hex_color, 3)>>
          /\ ~IsSharpSixHex(hex_color) => rgb = <<0, 0, 0>>
          /\ \A n \in 1..3 : rgb[n] \in 0..255

(***************************************************************************)
(* Properties of colours in a render, checked under SpecRender.            *)
(***************************************************************************)
\* a colour string that is not '#' followed by six hex digits
InvalidColour(c) == IsStr(c) /\ ~IsSharpSixHex(c)

Black == Str("#000000")
PaintsOf(k) == SelectSeq(canvas, LAMBDA q : q.elem = k)

\* C14: an invalid colour string fails closed to black: a solid background
\* with an invalid color is painted as the same background with color
\* black, a text element with an invalid fill color is painted as the same
\* element with color black, and render neither raises nor skips it.
InvalidColourPaintsBlack ==
    LET bg == Get(layout_data, "background", EmptyDict)
    IN  /\ (/\ Len(calls) >= 1
             /\ IsObj(bg)
             /\ Get(bg, "type", Str("solid")) = Str("solid")
             /\ InvalidColour(Get(bg, "color", Str("#FFFFFF"))))
                => /\ exc = "none"
                   /\ PaintsOf(0) = draw_background(Put(bg, "color", Black)).paints
        /\ pc = "r_done" =>
              \A k \in 1..Len(RenderElements.a) :
                  LET e == RenderElements.a[k]
                  IN  (/\ TypeOf(k) = Str("text")
                       /\ InvalidColour(Get(e, "color", Black))
                       /\ draw_text_with_effects(Put(e, "color", Black), k).caught = "none")
                          => PaintsOf(k) = draw_text_with_effects(Put(e, "color", Black), k).paints

\* the background of the running render, if it is a dict
BackgroundData == Get(layout_data, "background", EmptyDict)
IsGradient(bg) == IsObj(bg) /\ Get(bg, "type", Str("solid")) = Str("gradient")
GradientStart(bg) == Get(bg, "gradientStart", Str("#FFFFFF"))
GradientEnd(bg) == Get(bg, "gradientEnd", Str("#000000"))
GradientDirection(bg) == Get(bg, "gradientDirection", Str("horizontal"))

\* C15: when the start or the end colour of a gradient background fails to
\* parse, the painter draws no interpolated gradient but fills the whole
\* canvas with the start colour.
GradientParseFailureFillsStart ==
    (/\ Len(calls) >= 1
     /\ IsGradient(BackgroundData)
     /\ ~IsSharpSixHex(GradientStart(BackgroundData))
           \/ ~IsSharpSixHex(GradientEnd(BackgroundData)))
        => PaintsOf(0) = <<Paint("background", 0, 0, 0, CanvasWidth, CanvasHeight,
                                 GradientStart(BackgroundData))>>

\* the background just painted is the horizontal gradient #000000 -> #FFFFFF
BlackToWhitePainted ==
    /\ Len(canvas) = 1
    /\ IsGradient(BackgroundData)
    /\ GradientStart(BackgroundData) = Str("#000000")
    /\ GradientEnd(BackgroundData) = Str("#FFFFFF")
    /\ GradientDirection(BackgroundData) = Str("horizontal")

\* C16: in the horizontal gradient from #000000 to #FFFFFF on the 1280
\* wide canvas column 0 is (0,0,0), column 1279 is (254,254,254) or
\* (255,255,255), every column is constant from top to bottom, no channel
\* decreases from column x to column x + 1, and the channel at column x is
\* the truncation of 0 + (255 - 0) * x / 1280.
HorizontalGradientColumns ==
    BlackToWhitePainted =>
        LET Pixel(x, y) == GradientPixel(canvas[1].fill, x, y)
        IN  /\ canvas[1].kind = "background"
            /\ canvas[1].x = 0 /\ canvas[1].y = 0 /\ canvas[1].w = 1280 /\ canvas[1].h = 720
            /\ Pixel(0, 0) = <<0, 0, 0>>
            /\ Pixel(1279, 0) \in {<<254, 254, 254>>, <<255, 255, 255>>}
            /\ \A x \in 0..1279 : \A y \in 0..719 : Pixel(x, y) = Pixel(x, 0)
            /\ \A x \in 0..1278 : \A c \in 1..3 : Pixel(x, 0)[c] <= Pixel(x + 1, 0)[c]
            /\ \A x \in 0..1279 : \A c \in 1..3 : Pixel(x, 0)[c] = (255 * x) \div 1280

\* the gradient #000000 -> #FFFFFF was painted and its last column is 254
BlackToWhiteLastColumn ==
    /\ BlackToWhitePainted
    /\ GradientPixel(canvas[1].fill, 1279, 719) = <<254, 254, 254>>
    /\ GradientPixel(canvas[1].fill, 640, 0) = <<127, 127, 127>>

(***************************************************************************)
(* Properties of generate_layout, checked under SpecGenerate.              *)
(***************************************************************************)
\* the generation call failed, the response is empty, no JSON object can
\* be extracted from it, or the extracted text does not parse
NoParsedDocument ==
    \/ response.kind # "content"
    \/ response.content \in {Null, Str("")}
    \/ ExtractJson(response.content.s).fallback
    \/ JsonLoads(ExtractJson(response.content.s).text).raised

\* the hardcoded fallback: the default gradient, a title text, a subtitle
\* text (the given ones, else the defaults) and an image element
IsFallbackDocument(doc) ==
    /\ DOMAIN doc.o = {"background", "elements"}
    /\ doc.o["background"] = GradientCoralToTeal
    /\ Len(doc.o["elements"].a) = 3
    /\ LET es == doc.o["elements"].a
       IN  /\ es[1].o["type"] = Str("text") /\ es[1].o["role"] = Str("title")
           /\ es[1].o["content"] = IF title \in {Null, Str("")} THEN Str(FallbackTitle) ELSE title
           /\ es[2].o["type"] = Str("text") /\ es[2].o["role"] = Str("subtitle")
           /\ es[2].o["content"] = IF subtitle \in {Null, Str("")} THEN Str(FallbackSubtitle)
                                    ELSE subtitle
           /\ es[3].o["type"] = Str("image")

\* C17: generate_layout never raises and always returns a layout
\* document: when the call fails, the response is empty, no JSON object
\* can be extracted or the text does not parse, it returns the hardcoded
\* fallback and the validator is not applied; the validator is applied
\* exactly once to every parsed document.
GenerateAlwaysReturnsLayout ==
    /\ pc \in {"g_call", "g_extract", "g_parse", "v_defaults", "v_roles", "v_loop",
               "v_done", "v_raised", "g_done"}
    /\ pc = "g_done" => exc = "none"
    /\ validations <= 1
    /\ pc = "g_done" =>
          /\ IsObj(returned) /\ Has(returned, "background") /\ Has(returned, "elements")
          /\ NoParsedDocument => IsFallbackDocument(returned) /\ validations = 0
          /\ ~NoParsedDocument =>
                /\ validations = 1
                /\ returned = layout_data \/ IsFallbackDocument(returned)

\* the response held a JSON text that does not parse, and the fallback
\* with the caller's title was returned without a validator call
FallbackForUnparseableText ==
    /\ pc = "g_done"
    /\ response.kind = "content"
    /\ response_text = JsonBadList
    /\ title = Str("My title")
    /\ returned.o["elements"].a[1].o["content"] = Str("My title")
    /\ validations = 0

(***************************************************************************)
(* Properties of remove_background, checked under SpecRemove.              *)
(***************************************************************************)
\* the service gave no transparent result
NoTransparentResult ==
    \/ service.kind \in {"save_raises", "request_exception"}
    \/ service.kind = "response" /\ (service.status_code # 200 \/ service.content = Null)
NearWhite(p) == p[1] > 240 /\ p[2] > 240 /\ p[3] > 240
FallbackOf(original, returned_image) ==
    /\ returned_image.mode = "RGBA"
    /\ returned_image.size = original.size
    /\ Len(returned_image.data) = Len(original.data)
    /\ \A i \in 1..Len(original.data) :
          LET was == ConvertRGBA(original.mode, original.data[i])
              now == returned_image.data[i]
          IN  IF NearWhite(was) THEN now[4] = 0 ELSE now = was
FallbackReturned ==
    pc = "b_done" /\ NoTransparentResult => result # 1 /\ FallbackOf(images[1], images[result])
CallerImageKept == [][images'[1] = images[1]]_vars

TextPaints == SelectSeq(canvas, LAMBDA q : q.kind = "text")
AnchorX(q) == Get(RenderElements.a[q.elem], "x", Num(0)).n
AnchorY(q) == Get(RenderElements.a[q.elem], "y", Num(0)).n
AlignmentOf(q) == Get(RenderElements.a[q.elem], "alignment", Str("left"))
\* the x the claim resolves from the anchor, for a text of measured width w
ResolvedX(q) ==
    CASE AlignmentOf(q) = Str("left") -> AnchorX(q)
      [] AlignmentOf(q) = Str("center") -> AnchorX(q) - (q.w \div 2)
      [] AlignmentOf(q) = Str("right") -> AnchorX(q) - q.w
      [] OTHER -> AnchorX(q)
\* max(lo, min(v, hi)): lo where hi < lo
ClampTo(v, lo, hi) == IF v > hi THEN (IF hi < lo THEN lo ELSE hi) ELSE IF v < lo THEN lo ELSE v

\* C19: a painted text is at the x resolved from its anchor by alignment
\* (left and any other value: x, center: x - floor(width/2), right:
\* x - width) and then clamped to [0, 1280 - width]; its y is the anchor y
\* clamped to [0, 720 - height], whatever the alignment.
AlignmentResolvedBeforeClamp ==
    \A n \in 1..Len(TextPaints) :
        LET q == TextPaints[n]
        IN  /\ q.x = ClampTo(ResolvedX(q), 0, CanvasWidth - q.w)
            /\ q.y = ClampTo(AnchorY(q), 0, CanvasHeight - q.h)
\* a centred text of odd width was painted where no clamp applies
CentredOddWidthPainted ==
    /\ pc = "r_done"
    /\ \E n \in 1..Len(TextPaints) :
          LET q == TextPaints[n]
          IN  /\ AlignmentOf(q) = Str("center")
              /\ q.w % 2 = 1
              /\ q.x > 0 /\ q.x < CanvasWidth - q.w
              /\ 2 * (AnchorX(q) - q.x) = q.w - 1

(***************************************************************************)
(* Properties of the stroke and fill paints, checked under SpecRender.     *)
(***************************************************************************)
\* the text elements whose painter returned without catching an exception
PaintedTexts ==
    {calls[n].elem : n \in {m \in 1..Len(calls) : calls[m].painter = "text"}} \ diagnostics
StrokeOf(k) == Get(RenderElements.a[k], "stroke", EmptyDict)
StrokeWidthOf(k) == Get(StrokeOf(k), "width", Num(0)).n
Disc(w) == {d \in (-w..w) \X (-w..w) : d[1] * d[1] + d[2] * d[2] <= w * w}
\* the paints of element k are n stroke paints and then one fill paint
StrokesThenFill(k, n) ==
    LET ps == PaintsOf(k)
    IN  /\ Len(ps) = n + 1
        /\ ps[n + 1].kind = "text"
        /\ ps[n + 1].fill = Get(RenderElements.a[k], "color", Str("#000000"))
        /\ \A m \in 1..n :
              /\ ps[m].kind = "stroke"
              /\ ps[m].fill = Get(StrokeOf(k), "color", Str("#000000"))
StrokeOffsetsPainted(k) ==
    LET ps == PaintsOf(k)
    IN  {<<ps[m].x - ps[Len(ps)].x, ps[m].y - ps[Len(ps)].y>> : m \in 1..(Len(ps) - 1)}

\* C20: a painted text element with stroke width w > 0 has one stroke paint
\* at every offset (dx,dy) of the disc dx*dx + dy*dy <= w*w, dx,dy in -w..w,
\* offset (0,0) included, and no other, and then exactly one fill paint at
\* (x,y) as its last paint; with stroke width 0 or no stroke it has no
\* stroke paint and exactly one fill paint.
StrokeDiscThenFillOnce ==
    \A k \in PaintedTexts :
        IF StrokeWidthOf(k) > 0
        THEN /\ StrokesThenFill(k, Cardinality(Disc(StrokeWidthOf(k))))
             /\ StrokeOffsetsPainted(k) = Disc(StrokeWidthOf(k))
             /\ <<0, 0>> \in StrokeOffsetsPainted(k)
        ELSE StrokesThenFill(k, 0)
\* a text with a stroke of width 3 was painted: 29 stroke paints and the fill
StrokeOfWidthThreePainted ==
    /\ pc = "r_done"
    /\ \E k \in PaintedTexts : StrokeWidthOf(k) = 3 /\ Len(PaintsOf(k)) = 30

(***************************************************************************)
(* Properties of the diagonal gradient, checked under SpecRender.          *)
(***************************************************************************)
\* the background just painted is a diagonal gradient
DiagonalPainted ==
    /\ Len(canvas) = 1
    /\ IsGradient(BackgroundData)
    /\ GradientDirection(BackgroundData) = Str("diagonal")
    /\ canvas[1].kind = "background"
\* pixels at equal and at different distances from (0, 0), the corners of
\* the canvas, and pixels on the diagonal, where the ratio is rational
DiagonalSamples ==
    {<<0, 0>>, <<1, 0>>, <<0, 1>>, <<5, 0>>, <<0, 5>>, <<3, 4>>, <<4, 3>>,
     <<25, 0>>, <<7, 24>>, <<15, 20>>, <<16, 9>>, <<256, 144>>, <<144, 256>>,
     <<512, 288>>, <<640, 360>>, <<768, 432>>, <<1024, 576>>, <<1000, 0>>, <<800, 600>>,
     <<1279, 0>>, <<0, 719>>, <<1279, 719>>}
DiagonalColour(p) == GradientPixel(canvas[1].fill, p[1], p[2])
SquaredDistance(p) == p[1] * p[1] + p[2] * p[2]
\* v is the truncation of a + (b - a) * sqrt(s / (1280*1280 + 720*720))
IsTruncatedInterpolation(v, a, b, s) ==
    LET d == IF b >= a THEN b - a ELSE a - b
        k == IF b >= a THEN v - a ELSE a - v
        target == Wide(d * d, s)
        Square(n) == Wide(n * n, 1280 * 1280 + 720 * 720)
    IN  /\ 0 <= k /\ k <= d
        /\ IF b >= a
           THEN WideLeq(Square(k), target) /\ ~WideLeq(Square(k + 1), target)
           ELSE /\ WideLeq(target, Square(k))
                /\ k > 0 => ~WideLeq(target, Square(k - 1))
\* the same, or one level below it where the interpolation is an integer
IsFloatTruncatedInterpolation(v, a, b, s) ==
    \/ IsTruncatedInterpolation(v, a, b, s)
    \/ /\ IsTruncatedInterpolation(v + 1, a, b, s)
       /\ LET d == IF b >= a THEN b - a ELSE a - b
              k == IF b >= a THEN v + 1 - a ELSE a - v - 1
          IN  Wide(k * k, 1280 * 1280 + 720 * 720) = Wide(d * d, s)
\* what the claim derives from the formula: the colour depends on
\* x*x + y*y only, pixel (0,0) has the start colour, and no channel with
\* start <= end decreases as x*x + y*y grows
DiagonalByDistanceOnly ==
    DiagonalPainted =>
        LET fill == canvas[1].fill
        IN  /\ DiagonalColour(<<0, 0>>) = fill.start_rgb
            /\ \A p, q \in DiagonalSamples :
                  /\ SquaredDistance(p) = SquaredDistance(q) => DiagonalColour(p) = DiagonalColour(q)
                  /\ \A c \in 1..3 :
                        fill.start_rgb[c] <= fill.end_rgb[c] /\ SquaredDistance(p) <= SquaredDistance(q)
                            => DiagonalColour(p)[c] <= DiagonalColour(q)[c]

\* C21: in a diagonal gradient the colour of pixel (x,y) is the truncated
\* interpolation at ratio min(1, sqrt(x*x + y*y) / sqrt(1280*1280 + 720*720)):
\* pixels with equal x*x + y*y have the same colour, pixel (0,0) has the
\* start colour, and a channel with start <= end does not decrease as
\* x*x + y*y grows.
DiagonalIsTruncatedInterpolation ==
    /\ DiagonalByDistanceOnly
    /\ DiagonalPainted =>
          \A p \in DiagonalSamples : \A c \in 1..3 :
              IsTruncatedInterpolation(DiagonalColour(p)[c], canvas[1].fill.start_rgb[c],
                                       canvas[1].fill.end_rgb[c], SquaredDistance(p))
\* the same with the interpolation as the float arithmetic computes it:
\* where the exact interpolation is an integer the channel is that integer
\* or the one below it
DiagonalIsFloatTruncatedInterpolation ==
    /\ DiagonalByDistanceOnly
    /\ DiagonalPainted =>
          \A p \in DiagonalSamples : \A c \in 1..3 :
              IsFloatTruncatedInterpolation(DiagonalColour(p)[c], canvas[1].fill.start_rgb[c],
                                            canvas[1].fill.end_rgb[c], SquaredDistance(p))
\* the diagonal gradient #000000 -> #FFFFFF was painted: pixel (256, 144),
\* at a fifth of the diagonal, is 50 (the exact interpolation is 51), and
\* pixels (3, 4) and (5, 0) have one colour
DiagonalBlackToWhitePainted ==
    /\ DiagonalPainted
    /\ GradientStart(BackgroundData) = Str("#000000")
    /\ GradientEnd(BackgroundData) = Str("#FFFFFF")
    /\ DiagonalColour(<<256, 144>>) = <<50, 50, 50>>
    /\ DiagonalColour(<<640, 360>>) = <<127, 127, 127>>
    /\ DiagonalColour(<<3, 4>>) = DiagonalColour(<<5, 0>>)

(***************************************************************************)
(* Properties of the resized subject, checked under SpecRender.            *)
(***************************************************************************)
\* the image paints of the elements with a box of positive numbers
FittedPaints ==
    SelectSeq(canvas, LAMBDA q : q.kind = "image" /\ q.elem \in FittedElements)
\* n is the truncation of p * num / den
IsTruncatedQuotient(n, p, num, den) == n * den <= p * num /\ p * num < (n + 1) * den
WithinBox(q) == q.w <= BoxW(q.elem) /\ q.h <= BoxH(q.elem)
\* one side is the box side and the other the subject's ratio times it, truncated
KeepsRatio(q) ==
    \/ /\ q.w = BoxW(q.elem)
       /\ IsTruncatedQuotient(q.h, BoxW(q.elem), user_image.height, user_image.width)
    \/ /\ q.h = BoxH(q.elem)
       /\ IsTruncatedQuotient(q.w, BoxH(q.elem), user_image.width, user_image.height)

\* C22: the declared box is a maximum for the resized subject: for every
\* subject size and every declared width > 0 and height > 0 the resized
\* width and height are at most the declared ones, and the resized size
\* keeps the subject's aspect ratio up to the integer truncation of the
\* shrunk dimension.
ResizedWithinBoxKeepingRatio ==
    \A n \in 1..Len(FittedPaints) : WithinBox(FittedPaints[n]) /\ KeepsRatio(FittedPaints[n])
\* the part of C22 that holds: the resized subject is never larger than the box
ResizedWithinBox ==
    \A n \in 1..Len(FittedPaints) : WithinBox(FittedPaints[n])

(***************************************************************************)
(* Properties of FirebaseManager, checked under SpecStore.                 *)
(***************************************************************************)
\* the document ids for which a delete_thumbnail call among the first n - 1
\* calls returned True, and those for which one was made at all
DeletedBefore(n) == {log[i].arg : i \in {j \in 1..(n - 1) : log[j].op = "delete" /\ log[j].value = TRUE}}
DeleteCalled == {log[i].arg : i \in {j \in 1..Len(log) : log[j].op = "delete"}}
RangeOf(s) == {s[i] : i \in 1..Len(s)}

\* C23: on an initialised manager deletion is logical: after
\* delete_thumbnail(id) returned True no later list_user_thumbnails call
\* returns id, the document stays in the store, and a later
\* get_thumbnail_data(id) that reaches the store returns it with status
\* 'deleted'; a saved document for which delete_thumbnail was never called
\* has status 'active'.
DeletionIsLogical ==
    store.initialized =>
        /\ \A n \in 1..Len(log) : \A id \in DeletedBefore(n) :
              /\ log[n].op = "list" => id \notin RangeOf(log[n].value)
              /\ log[n].op = "get" /\ log[n].arg = id /\ ~log[n].raised
                    => log[n].value # NoneValue /\ log[n].value.status = "deleted"
        /\ \A id \in DeletedBefore(Len(log) + 1) :
              Exists(id) /\ store.docs[id].status = "deleted"
        /\ \A id \in 1..Len(store.docs) :
              id \notin DeleteCalled => store.docs[id].status = "active"
        /\ \A n \in 1..Len(log) :
              log[n].op = "save" /\ ~log[n].raised => Exists(log[n].value)
\* two documents were saved, one was deleted, then a list returned only the
\* other and a get of the deleted one returned it with status 'deleted'
DeletedThenListedAndRead ==
    /\ store.initialized
    /\ Len(log) = MaxCalls
    /\ \E d \in 2..(Len(log) - 2) :
          /\ log[d].op = "delete" /\ log[d].value = TRUE
          /\ \E n \in (d + 1)..Len(log) :
                log[n].op = "list" /\ ~log[n].raised /\ log[d].arg \notin RangeOf(log[n].value)
          /\ \E n \in (d + 1)..Len(log) :
                /\ log[n].op = "get" /\ log[n].arg = log[d].arg
                /\ log[n].value # NoneValue /\ log[n].value.status = "deleted"

\* the element has integer coordinates where it has coordinates
IntegerCoords(e) == IsObj(e) /\ IsNum(Get(e, "x", Num(0))) /\ IsNum(Get(e, "y", Num(0)))
\* what the painter of call c paints for element e
PaintsFrom(e, c) ==
    IF c.painter = "text" THEN draw_text_with_effects(e, c.elem).paints
    ELSE draw_image(e, user_image, c.elem).paints
ElementCalls == {n \in 1..Len(calls) : calls[n].painter \in {"text", "image"}}
OutsideCanvas(e) ==
    \/ Get(e, "x", Num(0)).n < 0 \/ Get(e, "x", Num(0)).n > CanvasWidth
    \/ Get(e, "y", Num(0)).n < 0 \/ Get(e, "y", Num(0)).n > CanvasHeight

\* C24: the coordinate clamp of the validator never changes where an
\* element is painted: for every text or image element with integer
\* coordinates that a painter was called for, what the painter put on the
\* canvas from the coordinates as given is what it puts there from the
\* coordinates clamped by lines 214-217 of the validator.
ClampKeepsPaintPosition ==
    \A n \in ElementCalls :
        LET e == RenderElements.a[calls[n].elem]
        IN  IntegerCoords(e) =>
                PaintsOf(calls[n].elem) = PaintsFrom(WithClampedCoords(e), calls[n])
\* an image and a right-aligned text, both anchored right of and below the
\* canvas, were painted, the text at the right edge and the bottom edge
OutsideAnchorsPainted ==
    /\ pc = "r_done"
    /\ \E n \in ElementCalls :
          LET e == RenderElements.a[calls[n].elem]
          IN  /\ calls[n].painter = "image" /\ IntegerCoords(e) /\ OutsideCanvas(e)
              /\ Len(PaintsOf(calls[n].elem)) = 1
    /\ \E n \in ElementCalls :
          LET e == RenderElements.a[calls[n].elem]
              ps == PaintsOf(calls[n].elem)
          IN  /\ calls[n].painter = "text" /\ IntegerCoords(e)
              /\ Get(e, "alignment", Str("left")) = Str("right")
              /\ Get(e, "x", Num(0)).n > CanvasWidth /\ Get(e, "y", Num(0)).n > CanvasHeight
              /\ Len(ps) = 1
              /\ ps[1].x = CanvasWidth - ps[1].w /\ ps[1].x > 0
              /\ ps[1].y = CanvasHeight - ps[1].h

(***************************************************************************)
(* Properties of the page of app.py, checked under SpecApp.                *)
(***************************************************************************)
\* C25: in every reachable session state a set generated_thumbnail is what
\* render_thumbnail returns for the session's current_layout and the
\* session's processed_image.
ThumbnailIsRenderOfSession ==
    session.generated_thumbnail # Null =>
        render_thumbnail(session.current_layout, session.processed_image)
            = Outcome("none", "none", session.generated_thumbnail)
\* a set thumbnail comes with a layout and a processed image, and differs
\* from their render only when render_thumbnail raises for them
ThumbnailSetWithLayout ==
    session.generated_thumbnail # Null =>
        /\ session.current_layout # Null
        /\ session.processed_image # Null
        /\ \/ ThumbnailIsRenderOfSession
           \/ render_thumbnail(session.current_layout, session.processed_image).escaped # "none"

KeysPass(c) == validate_api_keys(c.openai_key, c.remove_bg_key) = <<>>
InvokedWithPassingKeys == \A n \in 1..Len(invoked) : KeysPass(invoked[n])
\* a generate request made with failing keys invokes nothing and leaves the
\* session state as it is
RefusedGenerate ==
    \A f \in UploadedFiles, t \in {"", "T"}, layout \in AllLayouts :
        ~KeysPass(session) /\ Generate(f, t, "", layout) => invoked' = <<>> /\ session' = session
GenerateWithFailingKeysDoesNothing == [][RefusedGenerate]_vars
\* generate invokes the remover and the generator with passing keys only
GenerateInvokesWithPassingKeys ==
    Len(invoked) = 2 => InvokedWithPassingKeys

\* C26: the background remover and the layout generator are invoked only
\* while the session's keys pass validate_api_keys, and a generate request
\* with failing keys invokes nothing and leaves the session state unchanged.
InvokedOnlyWithPassingKeys == []InvokedWithPassingKeys /\ [][RefusedGenerate]_vars
====
